---- MODULE Spec2Model ----
(***************************************************************************)
(* The typed event registry of SimpleLogger (class EventBus and its scope  *)
(* adapter EventScopeImpl, second half of src/src/helpers.ts).             *)
(*                                                                         *)
(* The registry is a state machine over four maps: events, handlers,       *)
(* registrations and scopes.  Every public method is one action.  A fire   *)
(* (emit / emitAsync) is a pass over the live callback list that advances  *)
(* one index at a time, so that operations made by a running callback, or  *)
(* by other code while emitAsync is suspended at an await, interleave with *)
(* it exactly where the JavaScript run-to-completion rule lets them.       *)
(***************************************************************************)
EXTENDS Integers, Sequences, FiniteSets, TLC

\* ------------------------------------------------------------------ bounds

\* randomUUID() is modelled as a fresh handle 1, 2, ...; at most MaxHandles
\* registrations are made in one run.
MaxHandles == 3
\* ... at most MaxScoped where every call is made with every input, and at
\* most MaxAsync where two emitAsync calls are in flight.
MaxScoped == 2
MaxAsync == 2
\* ... and at most MaxFire where an emit and an emitAsync run side by side.
MaxFire == 3
\* ... and at most MaxTagged where scopes and fires meet.
MaxTagged == 3
\* ... and at most MaxFramed where every method there is is called.
MaxFramed == 1
\* ... and at most MaxListed where the lists are read.
MaxListed == 2
\* A builder takes at most MaxPieces calls of text() and format().
MaxPieces == 3
\* The builders the program holds beside each other have made at most
\* MaxArrays arrays.
MaxArrays == 9
\* The logger is given at most MaxWrites lines, and at most MaxFlights
\* asynchronous flushes are in flight at a time.
MaxWrites == 3
MaxFlights == 2

\* ------------------------------------------------------------------ inputs

EventNames == {"ping", "job"}
\* A scope id is a string, kept as its sequence of characters so that the
\* pattern /^\w+$/ is computed and not assumed.  NoScope is "", the scope id
\* of a callback registered directly on the bus.
NoScope == <<>>
S1 == <<"S", "1">>
S2 == <<"a", "_", "2">>
ScopeIds == {S1, S2}
\* Strings a caller may pass as a scope id: "abc_1", "", "has space",
\* "has-dash" and the two above.
Abc1 == <<"a", "b", "c", "_", "1">>
HasSpace == <<"h", "a", "s", " ", "s", "p", "a", "c", "e">>
HasDash == <<"h", "a", "s", "-", "d", "a", "s", "h">>
AnyIds == ScopeIds \cup {NoScope, Abc1, HasSpace, HasDash}
\* The two in-flight emitAsync calls the model follows.
Calls == {1, 2}
\* Handles a caller may pass to off / getCallbackInfo: every handle that can
\* be issued and one that never is.
UUIDs == 1 .. (MaxHandles + 1)

\* ------------------------------------------------------------------- state

VARIABLES
    events,         \* EventBus.events: name -> EventMetadata
    handlers,       \* EventBus.handlers: name -> callbacks (property is events[name])
    registrations,  \* EventBus.registrations: UUID -> HandlerRef
    scopes,         \* EventBus.scopes: scope id -> ScopeEntry (frozen flag)
    issued,         \* number of UUIDs randomUUID() has returned
    last,           \* outcome of the most recent call on the bus or on a scope object
    sp,             \* the running emit pass (at most one: emit is synchronous)
    ap,             \* the emitAsync calls in flight, by call
    removed,        \* history: handles whose removal reported success
    toggled,        \* history: the most recent freeze/unfreeze call per scope
    trace,          \* history: the calls in flight, in the order of their invocations
    building,       \* the FormatterBuilder in hand: mutable, and its three arrays
    kept,           \* a FormatterBuilder the program has kept beside it
    arrays,         \* the arrays the builders have made, by reference
    formatter,      \* the Formatter build() has made: literals, replacers
    rendered,       \* outcome of the most recent build() or render()
    writeHelper     \* the WriteHelper of a Logger that writes to a file, and the file

registry == <<events, handlers, registrations, scopes, issued>>
hist == <<removed, toggled, trace>>
vars == <<events, handlers, registrations, scopes, issued, last, sp, ap,
          removed, toggled, trace, building, kept, arrays, formatter, rendered,
          writeHelper>>

\* The formatter and the write helper are objects of their own: a call on
\* the bus or on a scope object leaves them alone, and the other way round.
bus == <<events, handlers, registrations, scopes, issued, last, sp, ap,
         removed, toggled, trace>>
builders == <<building, kept, arrays>>
formatting == <<builders, formatter, rendered>>
BusOnly == UNCHANGED <<formatting, writeHelper>>

\* A cleared slot (callbacks[index] = null).
Null == [async |-> FALSE, identifier |-> 0]

\* How a call ended: a return value, a raised Error, or the Ok / Err result of
\* a scope object.  err names the Error's message; val is the returned UUID
\* or boolean (0 when there is none).
Return(v) == [out |-> "return", err |-> "", val |-> v]
Throw(e) == [out |-> "throw", err |-> e, val |-> 0]
OkResult(v) == [out |-> "Ok", err |-> "", val |-> v]
ErrResult(e) == [out |-> "Err", err |-> e, val |-> 0]
\* emitAsync returns a promise: it resolves, or rejects with an Error.
Resolve == [out |-> "resolve", err |-> "", val |-> 0]
Reject(e) == [out |-> "reject", err |-> e, val |-> 0]
\* The Error a callback throws is not the registry's: it leaves emit, or
\* rejects emitAsync's promise, as the callback made it.  val is the
\* identifier of the callback that threw.
\* A list method returns the array it has built; val is the set of its
\* elements.
Listed(v) == [out |-> "list", err |-> "", val |-> v]
Thrown(u) == [out |-> "throw", err |-> "CallbackError", val |-> u]
Rejected(u) == [out |-> "reject", err |-> "CallbackError", val |-> u]

\* A bus method called directly raises; called from a scope object its Error
\* is caught and handed back as Err (and its value as Ok).
Fail(viaScope, e) == IF viaScope THEN ErrResult(e) ELSE Throw(e)
Done(viaScope, v) == IF viaScope THEN OkResult(v) ELSE Return(v)

IdlePass == [state |-> "idle", ev |-> "", idx |-> 0, log |-> <<>>, pend |-> 0, dirty |-> FALSE]

\* ---------------------------------------------------------------- EventBus

\* History kept beside a pass: the callback list of the event it walks was
\* changed (a push or a tombstone) after the pass started.
MarkPass(p, name) ==
    IF p.state # "idle" /\ p.ev = name THEN [p EXCEPT !.dirty = TRUE] ELSE p

Touch(name) ==
    /\ sp' = MarkPass(sp, name)
    /\ ap' = [c \in Calls |-> MarkPass(ap[c], name)]

\* define without the check for an existing name.
defineOverwrite(name, allowAsync) ==
    /\ events' = [n \in DOMAIN events \cup {name} |->
                     IF n = name THEN [name |-> name, allowAsync |-> allowAsync]
                     ELSE events[n]]
    /\ handlers' = [n \in DOMAIN handlers \cup {name} |->
                     IF n = name THEN <<>> ELSE handlers[n]]
    /\ last' = Return(0)
    /\ UNCHANGED <<registrations, scopes, issued, sp, ap, hist>>

define(name, allowAsync) ==
    IF name \in DOMAIN events
    THEN /\ last' = Throw("EventExists")
         /\ UNCHANGED <<registry, sp, ap, hist>>
    ELSE /\ events' = [n \in DOMAIN events \cup {name} |->
                          IF n = name THEN [name |-> name, allowAsync |-> allowAsync]
                          ELSE events[n]]
         /\ handlers' = [n \in DOMAIN handlers \cup {name} |->
                          IF n = name THEN <<>> ELSE handlers[n]]
         /\ last' = Return(0)
         /\ UNCHANGED <<registrations, scopes, issued, sp, ap, hist>>

\* Register that puts the callback into the first cleared slot of the list,
\* when there is one.
RegisterReuse(viaScope, name, async, scopeId) ==
    LET uuid == issued + 1
        free == {i \in 1 .. Len(handlers[name]) : handlers[name][i] = Null}
        at == IF free = {} THEN Len(handlers[name]) + 1
              ELSE CHOOSE i \in free : \A j \in free : i <= j
    IN
    /\ issued' = uuid
    /\ registrations' = [u \in DOMAIN registrations \cup {uuid} |->
                          IF u = uuid
                          THEN [eventName |-> name, index |-> at - 1,
                                scopeId |-> scopeId]
                          ELSE registrations[u]]
    /\ handlers' = [handlers EXCEPT
                      ![name] = [i \in 1 .. (IF free = {} THEN at ELSE Len(@)) |->
                                    IF i = at
                                    THEN [async |-> async, identifier |-> uuid]
                                    ELSE @[i]]]
    /\ last' = Done(viaScope, uuid)
    /\ Touch(name)
    /\ UNCHANGED <<events, scopes, hist>>

\* Register that records index 0 whatever the length of the list.
RegisterAtZero(viaScope, name, async, scopeId) ==
    LET uuid == issued + 1 IN
    /\ issued' = uuid
    /\ registrations' = [u \in DOMAIN registrations \cup {uuid} |->
                          IF u = uuid
                          THEN [eventName |-> name, index |-> 0,
                                scopeId |-> scopeId]
                          ELSE registrations[u]]
    /\ handlers' = [handlers EXCEPT
                      ![name] = Append(@, [async |-> async, identifier |-> uuid])]
    /\ last' = Done(viaScope, uuid)
    /\ Touch(name)
    /\ UNCHANGED <<events, scopes, hist>>

\* The body shared by onSync and onAsync once the event checks passed.
Register(viaScope, name, async, scopeId) ==
    LET uuid == issued + 1 IN
    /\ issued' = uuid
    /\ registrations' = [u \in DOMAIN registrations \cup {uuid} |->
                          IF u = uuid
                          THEN [eventName |-> name,
                                index |-> Len(handlers[name]),
                                scopeId |-> scopeId]
                          ELSE registrations[u]]
    /\ handlers' = [handlers EXCEPT
                      ![name] = Append(@, [async |-> async, identifier |-> uuid])]
    /\ last' = Done(viaScope, uuid)
    /\ Touch(name)
    /\ UNCHANGED <<events, scopes, hist>>

onSync(viaScope, name, scopeId) ==
    IF name \in DOMAIN events
    THEN Register(viaScope, name, FALSE, scopeId)
    ELSE /\ last' = Fail(viaScope, "SyncUnknownEvent")
         /\ UNCHANGED <<registry, sp, ap, hist>>

\* onAsync without the test of the event's allowAsync.
onAsyncUnchecked(viaScope, name, scopeId) ==
    IF name \in DOMAIN events
    THEN Register(viaScope, name, TRUE, scopeId)
    ELSE /\ last' = Fail(viaScope, "AsyncUnknownEvent")
         /\ UNCHANGED <<registry, sp, ap, hist>>

onAsync(viaScope, name, scopeId) ==
    IF name \in DOMAIN events
    THEN IF ~events[name].allowAsync
         THEN /\ last' = Fail(viaScope, "AsyncNotAllowed")
              /\ UNCHANGED <<registry, sp, ap, hist>>
         ELSE Register(viaScope, name, TRUE, scopeId)
    ELSE /\ last' = Fail(viaScope, "AsyncUnknownEvent")
         /\ UNCHANGED <<registry, sp, ap, hist>>

\* getCallbackInfo(identifier) finds the callback: the record exists and its
\* slot is not cleared.
InfoFound(identifier) ==
    /\ identifier \in DOMAIN registrations
    /\ handlers[registrations[identifier].eventName]
               [registrations[identifier].index + 1] # Null

getCallbackInfo(identifier) ==
    /\ last' = IF InfoFound(identifier)
               THEN Return(identifier)
               ELSE Throw("CallbackNotFound")
    /\ UNCHANGED <<registry, sp, ap, hist>>

\* EventBus.off finds the callback: only the record is looked up.
OffFound(identifier) == identifier \in DOMAIN registrations

\* off that reports success and leaves the slot as it is.
offNoClear(viaScope, identifier) ==
    IF identifier \in DOMAIN registrations
    THEN /\ last' = Done(viaScope, 0)
         /\ removed' = removed \cup {identifier}
         /\ UNCHANGED <<registry, sp, ap, toggled, trace>>
    ELSE /\ last' = Fail(viaScope, "CallbackNotFound")
         /\ UNCHANGED <<registry, sp, ap, hist>>

\* off that refuses a callback whose scope is frozen, as the scope object's
\* off does.
offFrozenScope(viaScope, identifier) ==
    IF /\ identifier \in DOMAIN registrations
       /\ registrations[identifier].scopeId \in DOMAIN scopes
       /\ scopes[registrations[identifier].scopeId].frozen
    THEN /\ last' = Fail(viaScope, "ScopeFrozen")
         /\ UNCHANGED <<registry, sp, ap, hist>>
    ELSE IF identifier \in DOMAIN registrations
    THEN LET entry == registrations[identifier] IN
         /\ handlers' = [handlers EXCEPT
                           ![entry.eventName][entry.index + 1] = Null]
         /\ last' = Done(viaScope, 0)
         /\ removed' = removed \cup {identifier}
         /\ Touch(entry.eventName)
         /\ UNCHANGED <<events, registrations, scopes, issued, toggled, trace>>
    ELSE /\ last' = Fail(viaScope, "CallbackNotFound")
         /\ UNCHANGED <<registry, sp, ap, hist>>

off(viaScope, identifier) ==
    IF OffFound(identifier)
    THEN LET entry == registrations[identifier] IN
         /\ handlers' = [handlers EXCEPT
                           ![entry.eventName][entry.index + 1] = Null]
         /\ last' = Done(viaScope, 0)
         /\ removed' = removed \cup {identifier}
         /\ Touch(entry.eventName)
         /\ UNCHANGED <<events, registrations, scopes, issued, toggled, trace>>
    ELSE /\ last' = Fail(viaScope, "CallbackNotFound")
         /\ UNCHANGED <<registry, sp, ap, hist>>

\* The elements of the array listEvents() returns: the metadata of every
\* defined event.
EventList == {events[n] : n \in DOMAIN events}

listEvents ==
    /\ last' = Listed(EventList)
    /\ UNCHANGED <<registry, sp, ap, hist>>

\* The elements of the array listCallbacks() returns without a filter: one
\* RegistrationInfo for every key of registrations.
CallbackList ==
    {[UUID |-> u,
      scopeId |-> registrations[u].scopeId,
      eventName |-> registrations[u].eventName] : u \in DOMAIN registrations}

listCallbacks ==
    /\ last' = Listed(CallbackList)
    /\ UNCHANGED <<registry, sp, ap, hist>>

\* The caller of listEvents() holds the array in last.  The array is a new
\* one at every call (Object.values), its elements are the metadata
\* objects of this.events themselves, and EventMetadata has no readonly
\* field.

\* returned.pop() or returned.splice(i, 1): the caller takes element d out.
callerDropsElement(d) ==
    /\ last.out = "list"
    /\ d \in last.val /\ d \in EventList
    /\ last' = Listed(last.val \ {d})
    /\ UNCHANGED <<registry, sp, ap, hist>>

\* returned.push(d) or returned[i] = d: the caller puts in a definition d of
\* its own making.
callerAddsElement(d) ==
    /\ last.out = "list"
    /\ last.val \subseteq EventList
    /\ d \notin last.val
    /\ last' = Listed(last.val \cup {d})
    /\ UNCHANGED <<registry, sp, ap, hist>>

\* returned[i].allowAsync = flag, where returned[i] is the definition of
\* event name: the object written to is this.events[name].
callerSetsField(name, flag) ==
    /\ last.out = "list"
    /\ name \in DOMAIN events
    /\ events[name] \in last.val
    /\ events[name].allowAsync # flag
    /\ events' = [events EXCEPT ![name].allowAsync = flag]
    /\ last' = Listed((last.val \ {events[name]})
                          \cup {[events[name] EXCEPT !.allowAsync = flag]})
    /\ UNCHANGED <<handlers, registrations, scopes, issued, sp, ap, hist>>

\* ------------------------------------------------------- scopes on the bus

Letters == {"a", "b", "c", "d", "e", "f", "g", "h", "i", "j", "k", "l", "m",
            "n", "o", "p", "q", "r", "s", "t", "u", "v", "w", "x", "y", "z",
            "A", "B", "C", "D", "E", "F", "G", "H", "I", "J", "K", "L", "M",
            "N", "O", "P", "Q", "R", "S", "T", "U", "V", "W", "X", "Y", "Z"}
Digits == {"0", "1", "2", "3", "4", "5", "6", "7", "8", "9"}
\* The class \w of a JavaScript regular expression.
WordChars == Letters \cup Digits \cup {"_"}

\* scopeId.match(/^\w+$/)
MatchesWord(scopeId) ==
    /\ Len(scopeId) >= 1
    /\ \A i \in 1 .. Len(scopeId) : scopeId[i] \in WordChars

\* scope without the test for an existing scope.
scopeAgain(scopeId) ==
    IF Len(scopeId) = 0
    THEN /\ last' = Throw("ScopeIdEmpty")
         /\ UNCHANGED <<registry, sp, ap, hist>>
    ELSE IF ~MatchesWord(scopeId)
    THEN /\ last' = Throw("ScopeIdInvalid")
         /\ UNCHANGED <<registry, sp, ap, hist>>
    ELSE /\ scopes' = [s \in DOMAIN scopes \cup {scopeId} |->
                          IF s = scopeId THEN [frozen |-> FALSE] ELSE scopes[s]]
         /\ toggled' = [s \in DOMAIN toggled \cup {scopeId} |->
                          IF s = scopeId THEN "none" ELSE toggled[s]]
         /\ last' = Return(0)
         /\ UNCHANGED <<events, handlers, registrations, issued, sp, ap,
                        removed, trace>>

scope(scopeId) ==
    IF Len(scopeId) = 0
    THEN /\ last' = Throw("ScopeIdEmpty")
         /\ UNCHANGED <<registry, sp, ap, hist>>
    ELSE IF ~MatchesWord(scopeId)
    THEN /\ last' = Throw("ScopeIdInvalid")
         /\ UNCHANGED <<registry, sp, ap, hist>>
    ELSE IF scopeId \in DOMAIN scopes
    THEN /\ last' = Throw("ScopeExists")
         /\ UNCHANGED <<registry, sp, ap, hist>>
    ELSE /\ scopes' = [s \in DOMAIN scopes \cup {scopeId} |->
                          IF s = scopeId THEN [frozen |-> FALSE] ELSE scopes[s]]
         /\ toggled' = [s \in DOMAIN toggled \cup {scopeId} |->
                          IF s = scopeId THEN "none" ELSE toggled[s]]
         /\ last' = Return(0)
         /\ UNCHANGED <<events, handlers, registrations, issued, sp, ap,
                        removed, trace>>

\* freezeScope that also takes the scope's callbacks out of their slots.
freezeScopeSweep(name) ==
    IF name \notin DOMAIN scopes
    THEN /\ last' = Throw("FreezeNoScope")
         /\ UNCHANGED <<registry, sp, ap, hist>>
    ELSE /\ scopes' = [scopes EXCEPT ![name].frozen = TRUE]
         /\ toggled' = [toggled EXCEPT ![name] = "freeze"]
         /\ handlers' = [n \in DOMAIN handlers |->
                           [i \in 1 .. Len(handlers[n]) |->
                               IF \E u \in DOMAIN registrations :
                                     /\ registrations[u].eventName = n
                                     /\ registrations[u].index + 1 = i
                                     /\ registrations[u].scopeId = name
                               THEN Null ELSE handlers[n][i]]]
         /\ last' = Return(0)
         /\ UNCHANGED <<events, registrations, issued, sp, ap, removed, trace>>

\* freezeScope that makes the entry it does not find.
freezeScopeCreate(name) ==
    /\ scopes' = [s \in DOMAIN scopes \cup {name} |->
                     IF s = name THEN [frozen |-> TRUE] ELSE scopes[s]]
    /\ toggled' = [s \in DOMAIN toggled \cup {name} |->
                     IF s = name THEN "freeze" ELSE toggled[s]]
    /\ last' = Return(0)
    /\ UNCHANGED <<events, handlers, registrations, issued, sp, ap,
                   removed, trace>>

freezeScope(name) ==
    IF name \notin DOMAIN scopes
    THEN /\ last' = Throw("FreezeNoScope")
         /\ UNCHANGED <<registry, sp, ap, hist>>
    ELSE /\ scopes' = [scopes EXCEPT ![name].frozen = TRUE]
         /\ toggled' = [toggled EXCEPT ![name] = "freeze"]
         /\ last' = Return(0)
         /\ UNCHANGED <<events, handlers, registrations, issued, sp, ap,
                        removed, trace>>

\* unfreezeScope with freezeScope's assignment.
unfreezeScopeStuck(name) ==
    IF name \notin DOMAIN scopes
    THEN /\ last' = Throw("UnfreezeNoScope")
         /\ UNCHANGED <<registry, sp, ap, hist>>
    ELSE /\ scopes' = [scopes EXCEPT ![name].frozen = TRUE]
         /\ toggled' = [toggled EXCEPT ![name] = "unfreeze"]
         /\ last' = Return(0)
         /\ UNCHANGED <<events, handlers, registrations, issued, sp, ap,
                        removed, trace>>

unfreezeScope(name) ==
    IF name \notin DOMAIN scopes
    THEN /\ last' = Throw("UnfreezeNoScope")
         /\ UNCHANGED <<registry, sp, ap, hist>>
    ELSE /\ scopes' = [scopes EXCEPT ![name].frozen = FALSE]
         /\ toggled' = [toggled EXCEPT ![name] = "unfreeze"]
         /\ last' = Return(0)
         /\ UNCHANGED <<events, handlers, registrations, issued, sp, ap,
                        removed, trace>>

\* The value isFrozen(name) returns for a scope that exists.
Frozen(name) == scopes[name].frozen

\* val is 1 for true and 0 for false.
isFrozen(name) ==
    /\ last' = IF name \notin DOMAIN scopes
               THEN Throw("NoScope")
               ELSE Return(IF Frozen(name) THEN 1 ELSE 0)
    /\ UNCHANGED <<registry, sp, ap, hist>>

\* ---------------------------------------------------------- EventScopeImpl
\* A scope object exists for every created scope; this is its scopeId.

ScopeIsFrozen(this) == Frozen(this)

\* isFrozen() called on the scope object by its owner.
ScopeIsFrozenCall(this) == isFrozen(this)

ScopeListEvents(this) == listEvents

\* The scope object's list without the test of the scope id.
ScopeCallbackListAll(this) == CallbackList

\* The elements of the array the scope object's listCallbacks() returns
\* without a filter.
ScopeCallbackList(this) == {cb \in CallbackList : cb.scopeId = this}

ScopeListCallbacks(this) ==
    /\ last' = Listed(ScopeCallbackList(this))
    /\ UNCHANGED <<registry, sp, ap, hist>>

\* Refuse that clears the flag it has read.
RefuseThaw(this) ==
    /\ last' = ErrResult("ScopeFrozen")
    /\ scopes' = [scopes EXCEPT ![this].frozen = FALSE]
    /\ UNCHANGED <<events, handlers, registrations, issued, sp, ap, hist>>

Refuse(this) ==
    /\ last' = ErrResult("ScopeFrozen")
    /\ UNCHANGED <<registry, sp, ap, hist>>

\* ScopeOff without the frozen check.
ScopeOffUnfrozen(this, identifier) ==
    IF ~InfoFound(identifier)
    THEN /\ last' = ErrResult("CallbackNotFound")
         /\ UNCHANGED <<registry, sp, ap, hist>>
    ELSE IF registrations[identifier].scopeId # this
    THEN /\ last' = ErrResult("ForeignCallback")
         /\ UNCHANGED <<registry, sp, ap, hist>>
    ELSE off(TRUE, identifier)

\* ScopeOff that reads the scope id from the record and not through
\* getCallbackInfo: a cleared slot is not noticed.
ScopeOffByRecord(this, identifier) ==
    IF ScopeIsFrozen(this)
    THEN Refuse(this)
    ELSE IF identifier \notin DOMAIN registrations
    THEN /\ last' = ErrResult("CallbackNotFound")
         /\ UNCHANGED <<registry, sp, ap, hist>>
    ELSE IF registrations[identifier].scopeId # this
    THEN /\ last' = ErrResult("ForeignCallback")
         /\ UNCHANGED <<registry, sp, ap, hist>>
    ELSE off(TRUE, identifier)

\* ScopeOff without the comparison of scope ids.
ScopeOffAny(this, identifier) ==
    IF ScopeIsFrozen(this)
    THEN Refuse(this)
    ELSE IF ~InfoFound(identifier)
    THEN /\ last' = ErrResult("CallbackNotFound")
         /\ UNCHANGED <<registry, sp, ap, hist>>
    ELSE off(TRUE, identifier)

ScopeOff(this, identifier) ==
    IF ScopeIsFrozen(this)
    THEN Refuse(this)
    ELSE IF ~InfoFound(identifier)
    THEN /\ last' = ErrResult("CallbackNotFound")
         /\ UNCHANGED <<registry, sp, ap, hist>>
    ELSE IF registrations[identifier].scopeId # this
    THEN /\ last' = ErrResult("ForeignCallback")
         /\ UNCHANGED <<registry, sp, ap, hist>>
    ELSE off(TRUE, identifier)

ScopeOnAsync(this, name) ==
    IF ScopeIsFrozen(this)
    THEN Refuse(this)
    ELSE onAsync(TRUE, name, this)

\* ScopeOnSync that forwards without its scope id.
ScopeOnSyncUntagged(this, name) ==
    IF ScopeIsFrozen(this)
    THEN Refuse(this)
    ELSE onSync(TRUE, name, NoScope)

ScopeOnSync(this, name) ==
    IF ScopeIsFrozen(this)
    THEN Refuse(this)
    ELSE onSync(TRUE, name, this)

\* -------------------------------------------------------------------- fire
\* for (const eventElement of eventCallbackList.callbacks) walks the live
\* array: each turn of the loop compares the index with the array's current
\* length and reads the current slot.

\* The handle registered at index i (from 0) of event name; every index below
\* the length of the list has one.
Registered(name, i) ==
    CHOOSE u \in DOMAIN registrations :
        registrations[u].eventName = name /\ registrations[u].index = i

\* SyncWalk over the entries as they were registered, cleared or not.
RECURSIVE SyncWalkStale(_)
SyncWalkStale(p) ==
    IF p.idx >= Len(handlers[p.ev])
    THEN [p EXCEPT !.state = "end", !.pend = 0]
    ELSE [p EXCEPT !.state = "call",
                   !.pend = Registered(p.ev, p.idx),
                   !.log = Append(@, Registered(p.ev, p.idx))]

\* emit's loop from pass p on, up to the next call of a callback (state
\* "call": the callback is running) or the end of the array (state "end").
\* A cleared slot is skipped by eventElement?.call.
RECURSIVE SyncWalk(_)
SyncWalk(p) ==
    IF p.idx >= Len(handlers[p.ev])
    THEN [p EXCEPT !.state = "end", !.pend = 0]
    ELSE LET eventElement == handlers[p.ev][p.idx + 1] IN
         IF eventElement = Null
         THEN SyncWalk([p EXCEPT !.idx = @ + 1])
         ELSE [p EXCEPT !.state = "call",
                        !.pend = eventElement.identifier,
                        !.log = Append(@, eventElement.identifier)]

\* emit without the allowAsync check.
emitAnyEvent(name) ==
    /\ sp.state = "idle"
    /\ IF name \in DOMAIN events
       THEN /\ sp' = SyncWalk([IdlePass EXCEPT !.state = "loop", !.ev = name])
            /\ last' = last
            /\ UNCHANGED <<registry, ap, hist>>
       ELSE /\ last' = Throw("EventNotFound")
            /\ UNCHANGED <<registry, sp, ap, hist>>

\* emit(name) up to its first callback.  A callback does not call emit itself.
emit(name) ==
    /\ sp.state = "idle"
    /\ IF name \in DOMAIN events
       THEN IF events[name].allowAsync
            THEN /\ last' = Throw("SyncFireOnAsyncEvent")
                 /\ UNCHANGED <<registry, sp, ap, hist>>
            ELSE /\ sp' = SyncWalk([IdlePass EXCEPT !.state = "loop", !.ev = name])
                 /\ last' = last
                 /\ UNCHANGED <<registry, ap, hist>>
       ELSE /\ last' = Throw("EventNotFound")
            /\ UNCHANGED <<registry, sp, ap, hist>>

\* emitNext with the iterator stepping over the slot behind the callback.
emitNextSkip ==
    /\ sp.state = "call"
    /\ sp' = SyncWalk([sp EXCEPT !.state = "loop", !.idx = @ + 2, !.pend = 0])
    /\ UNCHANGED <<registry, last, ap, hist>>

\* The running callback returns and the loop goes on.
emitNext ==
    /\ sp.state = "call"
    /\ sp' = SyncWalk([sp EXCEPT !.state = "loop", !.idx = @ + 1, !.pend = 0])
    /\ UNCHANGED <<registry, last, ap, hist>>

\* emitThrow with the Error caught in the loop, which goes on.
emitThrowCaught ==
    /\ sp.state = "call"
    /\ sp' = SyncWalk([sp EXCEPT !.state = "loop", !.idx = @ + 1, !.pend = 0])
    /\ last' = Thrown(sp.pend)
    /\ UNCHANGED <<registry, ap, hist>>

\* The running callback throws: emit has no try, the Error leaves emit.
emitThrow ==
    /\ sp.state = "call"
    /\ sp' = IdlePass
    /\ last' = Thrown(sp.pend)
    /\ UNCHANGED <<registry, ap, hist>>

\* The loop is over and emit returns.
emitReturn ==
    /\ sp.state = "end"
    /\ sp' = IdlePass
    /\ last' = Return(0)
    /\ UNCHANGED <<registry, ap, hist>>

\* One turn of emitAsync's loop for pass p, up to its await (state "await") or
\* the end of the array (state "end").  pend is the callback whose promise the
\* await waits for: 0 when the awaited value is no pending promise (a cleared
\* slot, or a synchronous callback, which has returned when call returns).
\* throws: the callback called in this turn is synchronous and throws.
AsyncTurn(p, throws) ==
    IF p.idx >= Len(handlers[p.ev])
    THEN [p EXCEPT !.state = "end", !.pend = 0]
    ELSE LET eventElement == handlers[p.ev][p.idx + 1] IN
         IF eventElement = Null
         THEN [p EXCEPT !.state = "await", !.pend = 0]
         ELSE [p EXCEPT !.state = IF throws /\ ~eventElement.async
                                  THEN "threw" ELSE "await",
                        !.pend = IF eventElement.async
                                 THEN eventElement.identifier ELSE 0,
                        !.log = Append(@, eventElement.identifier)]

\* The history of invocations of the calls in flight.
Invoked(call, before, after) ==
    IF Len(after.log) > Len(before.log) THEN Append(trace, call) ELSE trace

Forget(call) == SelectSeq(trace, LAMBDA c : c # call)

\* What one turn of call's loop leaves: the call suspended, or rejected.
AfterTurn(call, before, after) ==
    IF after.state = "threw"
    THEN /\ ap' = [ap EXCEPT ![call] = IdlePass]
         /\ last' = Rejected(after.log[Len(after.log)])
         /\ trace' = Forget(call)
    ELSE /\ ap' = [ap EXCEPT ![call] = after]
         /\ last' = last
         /\ trace' = Invoked(call, before, after)

\* emitAsync with the test emit makes turned round: an event that does not
\* allow asynchronous callbacks is refused.
emitAsyncChecked(call, name, throws) ==
    /\ sp.state = "idle"
    /\ ap[call].state = "idle"
    /\ IF name \notin DOMAIN events
       THEN /\ last' = Reject("EventNotFound")
            /\ UNCHANGED <<registry, sp, ap, hist>>
       ELSE IF ~events[name].allowAsync
       THEN /\ last' = Reject("AsyncFireOnSyncEvent")
            /\ UNCHANGED <<registry, sp, ap, hist>>
       ELSE /\ AfterTurn(call, IdlePass,
                         AsyncTurn([IdlePass EXCEPT !.state = "loop", !.ev = name], throws))
            /\ UNCHANGED <<registry, sp, removed, toggled>>

\* emitAsync(name) up to its first await: an async function runs in its
\* caller's turn until then.
emitAsync(call, name, throws) ==
    /\ sp.state = "idle"
    /\ ap[call].state = "idle"
    /\ IF name \notin DOMAIN events
       THEN /\ last' = Reject("EventNotFound")
            /\ UNCHANGED <<registry, sp, ap, hist>>
       ELSE /\ AfterTurn(call, IdlePass,
                         AsyncTurn([IdlePass EXCEPT !.state = "loop", !.ev = name], throws))
            /\ UNCHANGED <<registry, sp, removed, toggled>>

\* The asynchronous callback the call waits for completes.
settle(call) ==
    /\ sp.state = "idle"
    /\ ap[call].state = "await"
    /\ ap[call].pend # 0
    /\ ap' = [ap EXCEPT ![call].pend = 0]
    /\ UNCHANGED <<registry, last, sp, hist>>

\* The asynchronous callback the call waits for fails: the await throws.
reject(call) ==
    /\ sp.state = "idle"
    /\ ap[call].state = "await"
    /\ ap[call].pend # 0
    /\ ap' = [ap EXCEPT ![call] = IdlePass]
    /\ last' = Rejected(ap[call].pend)
    /\ trace' = Forget(call)
    /\ UNCHANGED <<registry, sp, removed, toggled>>

\* resume without the await: the loop goes on while the callback is pending.
resumeNoAwait(call, throws) ==
    /\ sp.state = "idle"
    /\ ap[call].state = "await"
    /\ AfterTurn(call, ap[call],
                 AsyncTurn([ap[call] EXCEPT !.state = "loop", !.idx = @ + 1], throws))
    /\ UNCHANGED <<registry, sp, removed, toggled>>

\* resume without the step of the iterator: the same slot is read again.
resumeSameSlot(call, throws) ==
    /\ sp.state = "idle"
    /\ ap[call].state = "await"
    /\ ap[call].pend = 0
    /\ Len(ap[call].log) <= Len(handlers[ap[call].ev])
    /\ AfterTurn(call, ap[call],
                 AsyncTurn([ap[call] EXCEPT !.state = "loop"], throws))
    /\ UNCHANGED <<registry, sp, removed, toggled>>

\* The awaited value is there: the call resumes with the next turn of its loop.
resume(call, throws) ==
    /\ sp.state = "idle"
    /\ ap[call].state = "await"
    /\ ap[call].pend = 0
    /\ AfterTurn(call, ap[call],
                 AsyncTurn([ap[call] EXCEPT !.state = "loop", !.idx = @ + 1], throws))
    /\ UNCHANGED <<registry, sp, removed, toggled>>

\* The loop is over: the promise emitAsync returned resolves.
resolve(call) ==
    /\ sp.state = "idle"
    /\ ap[call].state = "end"
    /\ ap' = [ap EXCEPT ![call] = IdlePass]
    /\ last' = Resolve
    /\ trace' = Forget(call)
    /\ UNCHANGED <<registry, sp, removed, toggled>>

\* ------------------------------------------------------------ Formatter

\* A string is the sequence of its characters.  A value is a string, a
\* number or undefined; text is what it reads as.
Undefined == [type |-> "undefined", text |-> <<>>]
StringOf(chars) == [type |-> "string", text |-> chars]
Seven == [type |-> "number", text |-> <<"7">>]
Values == {StringOf(<<"x">>), Seven}
TextArguments == {Undefined, StringOf(<<"a">>), Seven}

\* util.inspect(val, {colors: false, compact: true}): a string comes out in
\* quotes, a number as its digits.
inspectObject(val) ==
    IF val.type = "string" THEN <<"'">> \o val.text \o <<"'">> ELSE val.text

\* The replacers a placeholder is made with: format() (inspectObject),
\* format(VOID_MAPPER), and check(TypeCheckers.NUMBER).format().
Replacers == {"inspectObject", "VOID_MAPPER", "NUMBER"}

\* What the call of a replacer on a value does: it throws, or returns val.
Replace(replacer, value) ==
    IF replacer = "VOID_MAPPER"
    THEN [threw |-> FALSE, val |-> value]
    ELSE IF replacer = "NUMBER" /\ value.type # "number"
    THEN [threw |-> TRUE, val |-> value]
    ELSE [threw |-> FALSE, val |-> StringOf(inspectObject(value))]

\* new FormatterBuilder(mutable): literals, replacers and sequence are the
\* three new empty arrays, in the order the constructor makes them.
NoArrays == <<<<>>, <<>>, <<>>>>
NoBuilder(mutable) ==
    [mutable |-> mutable, literals |-> 1, replacers |-> 2, sequence |-> 3]

\* The arrays of builder this as they are in heap.
In(heap, this) ==
    [sequence |-> heap[this.sequence],
     literals |-> heap[this.literals],
     replacers |-> heap[this.replacers]]

Of(this) == In(arrays, this)
NoFormatter == [made |-> FALSE, literals |-> <<>>, replacers |-> <<>>]
Nothing == [out |-> "none", err |-> "", val |-> <<>>]
Returned(v) == [out |-> "return", err |-> "", val |-> v]
Raised(e) == [out |-> "throw", err |-> e, val |-> <<>>]

\* Array.prototype.join(separator) on an array of strings.
RECURSIVE Join(_, _)
Join(pieces, separator) ==
    IF Len(pieces) = 0 THEN <<>>
    ELSE IF Len(pieces) = 1 THEN pieces[1]
    ELSE pieces[1] \o separator \o Join(Tail(pieces), separator)

\* Formatter.builder(mutable): a new, empty builder.  The program drops the
\* builders and the formatter it had.
builder(mutable) ==
    /\ arrays' = NoArrays
    /\ building' = NoBuilder(mutable)
    /\ kept' = NoBuilder(mutable)
    /\ formatter' = NoFormatter
    /\ rendered' = Nothing
    /\ UNCHANGED <<bus, writeHelper>>

\* text of a mutable builder whatever the builder is: the push goes into the
\* arrays of the builder the call is made on.
textInPlace(object) ==
    LET string == IF object.type = "undefined" THEN <<>>
                  ELSE IF object.type = "string" THEN object.text
                  ELSE inspectObject(object)
    IN /\ arrays' = [arrays EXCEPT ![building.literals] = Append(@, string),
                                   ![building.sequence] = Append(@, "LITERAL")]
       /\ UNCHANGED <<building, kept, formatter, rendered, bus, writeHelper>>

\* text(object) on the builder in hand; the builder it returns is the one
\* in hand afterwards.  A mutable builder pushes into its own arrays and
\* returns a builder of the same arrays; an immutable one pushes into copies
\* of its literals and its sequence and returns a builder of the copies and
\* of its replacers.
text(object) ==
    LET string == IF object.type = "undefined" THEN <<>>
                  ELSE IF object.type = "string" THEN object.text
                  ELSE inspectObject(object)
    IN IF building.mutable
       THEN /\ arrays' = [arrays EXCEPT ![building.literals] = Append(@, string),
                                        ![building.sequence] = Append(@, "LITERAL")]
            /\ UNCHANGED <<building, kept, formatter, rendered, bus, writeHelper>>
       ELSE /\ arrays' = arrays \o <<Append(arrays[building.literals], string),
                                     Append(arrays[building.sequence], "LITERAL")>>
            /\ building' = [building EXCEPT !.literals = Len(arrays) + 1,
                                            !.sequence = Len(arrays) + 2]
            /\ UNCHANGED <<kept, formatter, rendered, bus, writeHelper>>

\* format(replacer) on the builder in hand, in the same two ways, with the
\* replacers in the place of the literals.
format(replacer) ==
    IF building.mutable
    THEN /\ arrays' = [arrays EXCEPT ![building.replacers] = Append(@, replacer),
                                     ![building.sequence] = Append(@, "REPLACER")]
         /\ UNCHANGED <<building, kept, formatter, rendered, bus, writeHelper>>
    ELSE /\ arrays' = arrays \o <<Append(arrays[building.replacers], replacer),
                                  Append(arrays[building.sequence], "REPLACER")>>
         /\ building' = [building EXCEPT !.replacers = Len(arrays) + 1,
                                         !.sequence = Len(arrays) + 2]
         /\ UNCHANGED <<kept, formatter, rendered, bus, writeHelper>>

\* The program keeps the builder in hand beside it, ...
keep ==
    /\ kept # building
    /\ kept' = building
    /\ UNCHANGED <<building, arrays, formatter, rendered, bus, writeHelper>>

\* ... or takes the builder it has kept in hand and keeps the other.
swap ==
    /\ kept # building
    /\ building' = kept
    /\ kept' = building
    /\ UNCHANGED <<arrays, formatter, rendered, bus, writeHelper>>

\* The loop of build() from index i (counted from 1) on.
RECURSIVE BuildLoop(_, _, _, _, _, _)
BuildLoop(this, i, literals, replacers, iLiterals, iReplacers) ==
    IF i > Len(this.sequence)
    THEN [literals |-> literals, replacers |-> replacers]
    ELSE LET currentState == this.sequence[i]
             lastState == IF i = 1 THEN "undefined" ELSE this.sequence[i - 1]
         IN IF currentState = "REPLACER"
            THEN BuildLoop(this, i + 1,
                           IF lastState = "REPLACER" THEN Append(literals, <<>>)
                           ELSE IF lastState = "undefined" THEN Append(literals, <<>>)
                           ELSE literals,
                           Append(replacers, this.replacers[iReplacers + 1]),
                           iLiterals, iReplacers + 1)
            ELSE BuildLoop(this, i + 1,
                           IF lastState = "LITERAL"
                           THEN [literals EXCEPT ![Len(literals)] =
                                                    @ \o this.literals[iLiterals + 1]]
                           ELSE Append(literals, this.literals[iLiterals + 1]),
                           replacers, iLiterals + 1, iReplacers)

\* The arrays build() hands to the constructor of Formatter.
Built(this) ==
    LET looped == BuildLoop(this, 1, <<>>, <<>>, 0, 0)
    IN IF Len(this.sequence) > 0 /\ this.sequence[Len(this.sequence)] = "REPLACER"
       THEN [looped EXCEPT !.literals = Append(@, <<>>)]
       ELSE looped

\* build(), and the constructor it calls, which throws when the lengths of
\* the arrays do not fit.
build ==
    LET args == Built(Of(building))
    IN IF Len(args.literals) - 1 # Len(args.replacers)
       THEN /\ rendered' = Raised("IllegalArgumentLength")
            /\ UNCHANGED <<builders, formatter, bus, writeHelper>>
       ELSE /\ formatter' = [made |-> TRUE, literals |-> args.literals,
                                            replacers |-> args.replacers]
            /\ rendered' = Returned(<<>>)
            /\ UNCHANGED <<builders, bus, writeHelper>>

\* The array result of render after i turns of its loop.
RECURSIVE Result(_, _, _)
Result(this, values, i) ==
    IF i = 0 THEN <<this.literals[1]>>
    ELSE LET val == Replace(this.replacers[i], values[i]).val
         IN Result(this, values, i - 1)
                \o <<IF val.type = "string" THEN val.text ELSE inspectObject(val),
                     this.literals[i + 1]>>

\* render(...values)
render(values) ==
    /\ formatter.made
    /\ IF Len(values) # Len(formatter.replacers)
       THEN rendered' = Raised("ParameterCount")
       ELSE IF \E i \in 1 .. Len(values) :
                 Replace(formatter.replacers[i], values[i]).threw
       THEN rendered' = Raised("FormatError")
       ELSE rendered' = Returned(Join(Result(formatter, values, Len(values)), <<",">>))
    /\ UNCHANGED <<builders, formatter, bus, writeHelper>>

\* ---------------------------------------------------------- WriteHelper

\* WriteHelper.flushSize
flushSize == 64

\* The lines given to write are numbered in the order of the calls; 0 is the
\* empty string the buffer is created with.
EmptyString == 0

\* storage.join(""), as the lines that reach the file.
Joined(storage) == SelectSeq(storage, LAMBDA content : content # EmptyString)

\* flushAsync up to its await: the buffer is taken and appendFile is started.
Started(this) ==
    [this EXCEPT !.isWriting = TRUE,
                 !.temporaryStorage = <<>>,
                 !.flights = Append(@, [storage |-> this.temporaryStorage,
                                        io |-> "pending"])]

\* write(content), with the flush it starts when the buffer is full and no
\* flush is marked as running.
write ==
    LET content == writeHelper.written + 1
        pushed == [writeHelper EXCEPT !.temporaryStorage = Append(@, content),
                                      !.written = content]
    IN /\ writeHelper' = IF /\ Len(pushed.temporaryStorage) >= flushSize
                            /\ ~pushed.isWriting
                         THEN Started(pushed) ELSE pushed
       /\ UNCHANGED <<bus, formatting>>

\* flushAsync(), called by flush() or by Logger.flushAsync().
flushAsync ==
    /\ writeHelper' = Started(writeHelper)
    /\ UNCHANGED <<bus, formatting>>

\* fs.promises.appendFile of flight i does its work: the batch is appended
\* to the file, or the append fails.
appendFile(i, fails) ==
    /\ i \in DOMAIN writeHelper.flights
    /\ writeHelper.flights[i].io = "pending"
    /\ writeHelper' =
          IF fails
          THEN [writeHelper EXCEPT !.flights[i].io = "failed"]
          ELSE [writeHelper EXCEPT
                  !.flights[i].io = "done",
                  !.file = @ \o Joined(writeHelper.flights[i].storage)]
    /\ UNCHANGED <<bus, formatting>>

\* flushAsync of flight i after its await: catch and finally.
flushAsyncResume(i) ==
    /\ i \in DOMAIN writeHelper.flights
    /\ writeHelper.flights[i].io # "pending"
    /\ writeHelper' =
          [writeHelper EXCEPT
             !.temporaryStorage =
                 IF writeHelper.flights[i].io = "failed"
                 THEN writeHelper.flights[i].storage \o @ ELSE @,
             !.isWriting = FALSE,
             !.flights = [k \in 1 .. (Len(@) - 1) |->
                             IF k < i THEN @[k] ELSE @[k + 1]]]
    /\ UNCHANGED <<bus, formatting>>

\* flushSync(), called by Logger.flushSync() of a logger that writes to a
\* file.  fails: appendFileSync throws.
flushSync(fails) ==
    /\ writeHelper' =
          [writeHelper EXCEPT
             !.temporaryStorage = <<>>,
             !.file = IF fails THEN @
                      ELSE @ \o Joined(writeHelper.temporaryStorage),
             !.isWriting = FALSE]
    /\ UNCHANGED <<bus, formatting>>

\* The default reasons of the exit-message blocks registerExitCallbacks
\* renders, and the reason a custom exit message gives.  A block is told
\* from a log line by its sign.
ReasonUnknown == -1
ReasonSIGINT == -2
ReasonSIGTERM == -3
ReasonCrashed == -4
ReasonCustom == -5

\* The values of customExitMessage: undefined, a message that gives no
\* reason (its detail only), a message with a reason string.
NoExitMessage == [set |-> FALSE, reason |-> EmptyString]
ExitMessages ==
    {NoExitMessage,
     [set |-> TRUE, reason |-> EmptyString],
     [set |-> TRUE, reason |-> ReasonCustom]}

\* renderExitMessage(defaultMessage, customMessage): the block, named by the
\* reason it prints.
renderExitMessage(defaultReason, customMessage) ==
    IF customMessage.set /\ customMessage.reason # EmptyString
    THEN customMessage.reason
    ELSE defaultReason

\* The number of exit-message blocks among the pieces of a sequence.
Blocks(pieces) == Len(SelectSeq(pieces, LAMBDA content : content < 0))

\* this.write(content) and this.flushSync() as the exit callbacks call them,
\* on the helper as the callback has left it so far.
Pushed(this, content) ==
    LET pushed == [this EXCEPT !.temporaryStorage = Append(@, content)]
    IN IF Len(pushed.temporaryStorage) >= flushSize /\ ~pushed.isWriting
       THEN Started(pushed) ELSE pushed

Flushed(this, fails) ==
    [this EXCEPT !.temporaryStorage = <<>>,
                 !.file = IF fails THEN @ ELSE @ \o Joined(this.temporaryStorage),
                 !.isWriting = FALSE]

setCustomExitMessage(exitMessage) ==
    /\ writeHelper' = [writeHelper EXCEPT !.customExitMessage = exitMessage]
    /\ UNCHANGED <<bus, formatting>>

\* The callback of 'exit', which process.exit() runs before the process
\* ends; appends in flight are not waited for.
OnExit(this, fails) ==
    [Flushed(IF this.customExitMessage.set
             THEN Pushed(this, renderExitMessage(ReasonUnknown, this.customExitMessage))
             ELSE this, fails)
        EXCEPT !.exited = TRUE]

\* The process ends with nothing left to do, or the program calls
\* process.exit().
exit(fails) ==
    /\ writeHelper' = OnExit(writeHelper, fails)
    /\ UNCHANGED <<bus, formatting>>

\* The callback of 'SIGINT'.  fails, failsOnExit: the appendFileSync of the
\* callback, and of the 'exit' callback process.exit(0) runs, throws.
SIGINT(fails, failsOnExit) ==
    /\ writeHelper' =
          OnExit(Flushed(Pushed(writeHelper,
                                renderExitMessage(ReasonSIGINT,
                                                  writeHelper.customExitMessage)),
                         fails),
                 failsOnExit)
    /\ UNCHANGED <<bus, formatting>>

\* The callback of 'SIGTERM': flushSync comes before write.
SIGTERM(fails, failsOnExit) ==
    /\ writeHelper' =
          OnExit(Pushed(Flushed(writeHelper, fails),
                        renderExitMessage(ReasonSIGTERM,
                                          writeHelper.customExitMessage)),
                 failsOnExit)
    /\ UNCHANGED <<bus, formatting>>

\* The callback of 'uncaughtException'.
uncaughtException(fails, failsOnExit) ==
    /\ writeHelper' =
          OnExit(Flushed(Pushed(writeHelper,
                                renderExitMessage(ReasonCrashed,
                                                  writeHelper.customExitMessage)),
                         fails),
                 failsOnExit)
    /\ UNCHANGED <<bus, formatting>>

\* ------------------------------------------------------------- the model

Init ==
    /\ events = <<>>
    /\ handlers = <<>>
    /\ registrations = <<>>
    /\ scopes = <<>>
    /\ issued = 0
    /\ last = Return(0)
    /\ sp = IdlePass
    /\ ap = [c \in Calls |-> IdlePass]
    /\ removed = {}
    /\ toggled = <<>>
    /\ arrays = NoArrays
    /\ building = NoBuilder(FALSE)
    /\ kept = NoBuilder(FALSE)
    /\ formatter = NoFormatter
    /\ rendered = Nothing
    /\ writeHelper = Started([temporaryStorage |-> <<EmptyString>>,
                              isWriting |-> FALSE,
                              flights |-> <<>>,
                              file |-> <<>>,
                              written |-> 0,
                              customExitMessage |-> NoExitMessage,
                              exited |-> FALSE])
    /\ trace = <<>>

\* Code other than the loop of emit runs when no emit is on the stack or when
\* the callback emit called is running.
CanCall == sp.state \in {"idle", "call"}

\* Spec: every method of the bus and of its scope objects, with handles and
\* scope ids right and wrong, on event "ping", defined synchronous, and event
\* "job", defined asynchronous.  No event is fired.
Next ==
    \/ \E n \in EventNames : define(n, n = "job") /\ BusOnly
    \/ \E n \in EventNames : issued < MaxScoped /\ onSync(FALSE, n, NoScope) /\ BusOnly
    \/ \E n \in EventNames : issued < MaxScoped /\ onAsync(FALSE, n, NoScope) /\ BusOnly
    \/ \E u \in UUIDs : getCallbackInfo(u) /\ BusOnly
    \/ \E u \in UUIDs : off(FALSE, u) /\ BusOnly
    \/ \E s \in ScopeIds : scope(s) /\ BusOnly
    \/ \E s \in ScopeIds : freezeScope(s) /\ BusOnly
    \/ \E s \in ScopeIds : unfreezeScope(s) /\ BusOnly
    \/ \E s \in ScopeIds : isFrozen(s) /\ BusOnly
    \/ \E s \in DOMAIN scopes, u \in UUIDs : ScopeOff(s, u) /\ BusOnly
    \/ \E s \in DOMAIN scopes, n \in EventNames :
           issued < MaxScoped /\ ScopeOnSync(s, n) /\ BusOnly
    \/ \E s \in DOMAIN scopes, n \in EventNames :
           issued < MaxScoped /\ ScopeOnAsync(s, n) /\ BusOnly

Spec == Init /\ [][Next]_vars

\* SpecBus: the catalog and the callback registry called directly on the bus,
\* every event defined with either flag.
NextBus ==
    \/ \E n \in EventNames, a \in BOOLEAN : define(n, a) /\ BusOnly
    \/ \E n \in EventNames : issued < MaxHandles /\ onSync(FALSE, n, NoScope) /\ BusOnly
    \/ \E n \in EventNames : issued < MaxHandles /\ onAsync(FALSE, n, NoScope) /\ BusOnly
    \/ \E u \in UUIDs : getCallbackInfo(u) /\ BusOnly
    \/ \E u \in UUIDs : off(FALSE, u) /\ BusOnly

SpecBus == Init /\ [][NextBus]_vars

\* SpecScope: the scope manager of the bus, called with every string of
\* AnyIds, well formed or not, created or not.
NextScope ==
    \/ \E s \in AnyIds : scope(s) /\ BusOnly
    \/ \E s \in AnyIds : freezeScope(s) /\ BusOnly
    \/ \E s \in AnyIds : unfreezeScope(s) /\ BusOnly
    \/ \E s \in AnyIds : isFrozen(s) /\ BusOnly

SpecScope == Init /\ [][NextScope]_vars

\* The calls that build a registry to fire on: "ping" is defined synchronous
\* and "job" asynchronous, callbacks are registered on defined events, on the
\* bus or through scope S1, and removed by handle.
Build ==
    \/ \E n \in EventNames : define(n, n = "job")
    \/ \E n \in DOMAIN events : issued < MaxHandles /\ onSync(FALSE, n, NoScope)
    \/ \E n \in DOMAIN events : issued < MaxHandles /\ onAsync(FALSE, n, NoScope)
    \/ \E u \in DOMAIN registrations : off(FALSE, u)

BuildScoped ==
    \/ scope(S1)
    \/ \E s \in DOMAIN scopes, n \in DOMAIN events :
           issued < MaxHandles /\ ScopeOnSync(s, n)
    \/ \E s \in DOMAIN scopes, u \in DOMAIN registrations : ScopeOff(s, u)

\* SpecEmit: emit, with the registry changing between two fires and while a
\* callback of the running fire is on the stack.
NextEmit ==
    \/ CanCall /\ Build /\ BusOnly
    \/ CanCall /\ BuildScoped /\ BusOnly
    \/ \E n \in EventNames : emit(n) /\ BusOnly
    \/ emitNext /\ BusOnly
    \/ emitThrow /\ BusOnly
    \/ emitReturn /\ BusOnly

SpecEmit == Init /\ [][NextEmit]_vars

\* SpecAsync: two emitAsync calls in flight, with the registry changing while
\* they are suspended.
NextAsync ==
    \/ \E n \in EventNames : define(n, n = "job") /\ BusOnly
    \/ \E n \in DOMAIN events : issued < MaxAsync /\ onSync(FALSE, n, NoScope) /\ BusOnly
    \/ \E n \in DOMAIN events : issued < MaxAsync /\ onAsync(FALSE, n, NoScope) /\ BusOnly
    \/ \E u \in DOMAIN registrations : off(FALSE, u) /\ BusOnly
    \/ \E c \in Calls, n \in EventNames, t \in BOOLEAN : emitAsync(c, n, t) /\ BusOnly
    \/ \E c \in Calls : settle(c) /\ BusOnly
    \/ \E c \in Calls : reject(c) /\ BusOnly
    \/ \E c \in Calls, t \in BOOLEAN : resume(c, t) /\ BusOnly
    \/ \E c \in Calls : resolve(c) /\ BusOnly

SpecAsync == Init /\ [][NextAsync]_vars

\* SpecFire: an emit and an emitAsync (call 1) side by side, on the bus
\* alone; callbacks are registered and removed between fires, by a running
\* callback of emit, and while emitAsync is suspended.
NextFire ==
    \/ CanCall /\ \E n \in EventNames : define(n, n = "job") /\ BusOnly
    \/ CanCall /\ \E n \in DOMAIN events :
           issued < MaxFire /\ onSync(FALSE, n, NoScope) /\ BusOnly
    \/ CanCall /\ \E n \in DOMAIN events :
           issued < MaxFire /\ onAsync(FALSE, n, NoScope) /\ BusOnly
    \/ CanCall /\ \E u \in DOMAIN registrations : off(FALSE, u) /\ BusOnly
    \/ \E n \in DOMAIN events : emit(n) /\ BusOnly
    \/ emitNext /\ BusOnly
    \/ emitThrow /\ BusOnly
    \/ emitReturn /\ BusOnly
    \/ \E n \in DOMAIN events, t \in BOOLEAN : emitAsync(1, n, t) /\ BusOnly
    \/ settle(1) /\ BusOnly
    \/ reject(1) /\ BusOnly
    \/ \E t \in BOOLEAN : resume(1, t) /\ BusOnly
    \/ resolve(1) /\ BusOnly

SpecFire == Init /\ [][NextFire]_vars

\* No fire is running.
Quiet == sp.state = "idle" /\ ap[1].state = "idle"

\* A definition of the caller's own making.
Made == [name |-> "made", allowAsync |-> TRUE]

\* SpecList: the list methods of the bus and of the scope objects between
\* registrations and removals, and what the caller does to the array
\* listEvents() has returned.  No event is fired.
NextList ==
    \/ \E n \in EventNames : define(n, n = "job") /\ BusOnly
    \/ \E s \in ScopeIds : s \notin DOMAIN scopes /\ scope(s) /\ BusOnly
    \/ \E n \in DOMAIN events : issued < MaxListed /\ onSync(FALSE, n, NoScope) /\ BusOnly
    \/ \E n \in DOMAIN events : issued < MaxListed /\ onAsync(FALSE, n, NoScope) /\ BusOnly
    \/ \E s \in DOMAIN scopes, n \in DOMAIN events :
           issued < MaxListed /\ ScopeOnSync(s, n) /\ BusOnly
    \/ \E u \in DOMAIN registrations : off(FALSE, u) /\ BusOnly
    \/ \E s \in DOMAIN scopes, u \in DOMAIN registrations : ScopeOff(s, u) /\ BusOnly
    \/ listEvents /\ BusOnly
    \/ listCallbacks /\ BusOnly
    \/ \E s \in DOMAIN scopes : ScopeListEvents(s) /\ BusOnly
    \/ \E s \in DOMAIN scopes : ScopeListCallbacks(s) /\ BusOnly
    \/ \E d \in EventList : callerDropsElement(d) /\ BusOnly
    \/ callerAddsElement(Made) /\ BusOnly
    \/ \E n \in EventNames, f \in BOOLEAN : callerSetsField(n, f) /\ BusOnly

SpecList == Init /\ [][NextList]_vars

\* Every list of at most n values.
ValueLists(n) == UNION {[1 .. k -> Values] : k \in 0 .. n}

\* SpecFormat: templates built with text() and format() in every order,
\* from every builder of at most MaxPieces calls, and rendered with every
\* list of values of the right length and of a wrong one.
NextFormat ==
    \/ \E mutable \in BOOLEAN : builder(mutable)
    \/ \E object \in TextArguments :
           /\ ~formatter.made
           /\ Len(Of(building).sequence) < MaxPieces
           /\ text(object)
    \/ \E replacer \in Replacers :
           /\ ~formatter.made
           /\ Len(Of(building).sequence) < MaxPieces
           /\ format(replacer)
    \/ ~formatter.made /\ build
    \/ \E values \in ValueLists(Len(formatter.replacers) + 1) : render(values)

SpecFormat == Init /\ [][NextFormat]_vars

\* SpecTag: onSync and onAsync called on the bus with and without their
\* third argument, a scope id, which the scope objects pass and any other
\* caller can pass as well, beside the scopes made and the registrations
\* through their objects.
NextTag ==
    \/ \E n \in EventNames : define(n, n = "job") /\ BusOnly
    \/ \E s \in ScopeIds : scope(s) /\ BusOnly
    \/ \E n \in EventNames, s \in ScopeIds \cup {NoScope} :
           issued < MaxScoped /\ onSync(FALSE, n, s) /\ BusOnly
    \/ \E n \in EventNames, s \in ScopeIds \cup {NoScope} :
           issued < MaxScoped /\ onAsync(FALSE, n, s) /\ BusOnly
    \/ \E s \in DOMAIN scopes, n \in EventNames :
           issued < MaxScoped /\ ScopeOnSync(s, n) /\ BusOnly
    \/ \E s \in DOMAIN scopes, n \in EventNames :
           issued < MaxScoped /\ ScopeOnAsync(s, n) /\ BusOnly
    \/ \E u \in DOMAIN registrations : off(FALSE, u) /\ BusOnly

SpecTag == Init /\ [][NextTag]_vars

\* SpecBuilder: an immutable builder and its continuations: the program
\* keeps a builder, goes on from it with text() and format(), and comes back
\* to the builder it has kept to go on from there in another way.
NextBuilder ==
    \/ builder(FALSE)
    \/ \E object \in TextArguments :
           Len(arrays) + 2 <= MaxArrays /\ text(object)
    \/ \E replacer \in Replacers :
           Len(arrays) + 2 <= MaxArrays /\ format(replacer)
    \/ keep
    \/ swap

SpecBuilder == Init /\ [][NextBuilder]_vars

\* SpecWrite: lines written to the WriteHelper, flushed by flushAsync and
\* by flushSync while the appends of earlier flushes are under way, each
\* append succeeding or failing.
NextWrite ==
    \/ writeHelper.written < MaxWrites /\ write
    \/ Len(writeHelper.flights) < MaxFlights /\ flushAsync
    \/ \E i \in DOMAIN writeHelper.flights, fails \in BOOLEAN : appendFile(i, fails)
    \/ \E i \in DOMAIN writeHelper.flights : flushAsyncResume(i)
    \/ \E fails \in BOOLEAN : flushSync(fails)

SpecWrite == Init /\ [][NextWrite]_vars

\* SpecExit: the WriteHelper of SpecWrite in a process that ends: the exit
\* message is set or cleared, and the process exits by itself, on a signal
\* or on an exception nobody caught.  Nothing runs in a process that has
\* exited.
NextExit ==
    \/ ~writeHelper.exited /\ writeHelper.written < MaxWrites /\ write
    \/ ~writeHelper.exited /\ Len(writeHelper.flights) < MaxFlights /\ flushAsync
    \/ ~writeHelper.exited /\
          \E i \in DOMAIN writeHelper.flights, fails \in BOOLEAN : appendFile(i, fails)
    \/ ~writeHelper.exited /\
          \E i \in DOMAIN writeHelper.flights : flushAsyncResume(i)
    \/ ~writeHelper.exited /\
          \E exitMessage \in ExitMessages : setCustomExitMessage(exitMessage)
    \/ ~writeHelper.exited /\ \E fails \in BOOLEAN : exit(fails)
    \/ ~writeHelper.exited /\
          \E fails \in BOOLEAN, failsOnExit \in BOOLEAN : SIGINT(fails, failsOnExit)
    \/ ~writeHelper.exited /\
          \E fails \in BOOLEAN, failsOnExit \in BOOLEAN : SIGTERM(fails, failsOnExit)
    \/ ~writeHelper.exited /\
          \E fails \in BOOLEAN, failsOnExit \in BOOLEAN :
              uncaughtException(fails, failsOnExit)

SpecExit == Init /\ [][NextExit]_vars

\* SpecFrame: every public method of the bus and of the scope objects, the
\* list methods and the fires among them, with handles and scope ids right
\* and wrong, each call made when no fire is running.
NextFrame ==
    \/ Quiet /\ \E n \in EventNames : define(n, n = "job") /\ BusOnly
    \/ Quiet /\ \E n \in DOMAIN events, a \in BOOLEAN : define(n, a) /\ BusOnly
    \/ Quiet /\ \E n \in EventNames : issued < MaxFramed /\ onSync(FALSE, n, NoScope) /\ BusOnly
    \/ Quiet /\ \E n \in EventNames : issued < MaxFramed /\ onAsync(FALSE, n, NoScope) /\ BusOnly
    \/ Quiet /\ \E u \in 1 .. (MaxFramed + 1) : getCallbackInfo(u) /\ BusOnly
    \/ Quiet /\ \E u \in 1 .. (MaxFramed + 1) : off(FALSE, u) /\ BusOnly
    \/ Quiet /\ listEvents /\ BusOnly
    \/ Quiet /\ listCallbacks /\ BusOnly
    \/ Quiet /\ \E s \in ScopeIds : scope(s) /\ BusOnly
    \/ Quiet /\ \E s \in ScopeIds : freezeScope(s) /\ BusOnly
    \/ Quiet /\ \E s \in ScopeIds : unfreezeScope(s) /\ BusOnly
    \/ Quiet /\ \E s \in ScopeIds : isFrozen(s) /\ BusOnly
    \/ Quiet /\ \E s \in DOMAIN scopes : ScopeIsFrozenCall(s) /\ BusOnly
    \/ Quiet /\ \E s \in DOMAIN scopes : ScopeListEvents(s) /\ BusOnly
    \/ Quiet /\ \E s \in DOMAIN scopes : ScopeListCallbacks(s) /\ BusOnly
    \/ Quiet /\ \E s \in DOMAIN scopes, u \in 1 .. (MaxFramed + 1) : ScopeOff(s, u) /\ BusOnly
    \/ Quiet /\ \E s \in DOMAIN scopes, n \in EventNames :
           issued < MaxFramed /\ ScopeOnSync(s, n) /\ BusOnly
    \/ Quiet /\ \E s \in DOMAIN scopes, n \in EventNames :
           issued < MaxFramed /\ ScopeOnAsync(s, n) /\ BusOnly
    \/ Quiet /\ \E n \in EventNames : emit(n) /\ BusOnly
    \/ emitNext /\ BusOnly
    \/ emitThrow /\ BusOnly
    \/ emitReturn /\ BusOnly
    \/ Quiet /\ \E n \in EventNames, t \in BOOLEAN : emitAsync(1, n, t) /\ BusOnly
    \/ settle(1) /\ BusOnly
    \/ reject(1) /\ BusOnly
    \/ \E t \in BOOLEAN : resume(1, t) /\ BusOnly
    \/ resolve(1) /\ BusOnly

SpecFrame == Init /\ [][NextFrame]_vars

\* SpecTagged: on the synchronous event "ping", callbacks registered and
\* removed on the bus and through the objects of two scopes, the scopes
\* frozen and unfrozen, and between these calls the event fired, by emit or
\* by emitAsync (call 1), one fire at a time and with callbacks that return.
NextTagged ==
    \/ Quiet /\ define("ping", FALSE) /\ BusOnly
    \/ Quiet /\ \E s \in ScopeIds : s \notin DOMAIN scopes /\ scope(s) /\ BusOnly
    \/ Quiet /\ \E s \in DOMAIN scopes : freezeScope(s) /\ BusOnly
    \/ Quiet /\ \E s \in DOMAIN scopes : unfreezeScope(s) /\ BusOnly
    \/ Quiet /\ \E n \in DOMAIN events :
           issued < MaxTagged /\ onSync(FALSE, n, NoScope) /\ BusOnly
    \/ Quiet /\ \E s \in DOMAIN scopes, n \in DOMAIN events :
           issued < MaxTagged /\ ScopeOnSync(s, n) /\ BusOnly
    \/ Quiet /\ \E u \in DOMAIN registrations : off(FALSE, u) /\ BusOnly
    \/ Quiet /\ \E s \in DOMAIN scopes, u \in DOMAIN registrations : ScopeOff(s, u) /\ BusOnly
    \/ Quiet /\ \E n \in DOMAIN events : emit(n) /\ BusOnly
    \/ emitNext /\ BusOnly
    \/ emitReturn /\ BusOnly
    \/ Quiet /\ \E n \in DOMAIN events : emitAsync(1, n, FALSE) /\ BusOnly
    \/ resume(1, FALSE) /\ BusOnly
    \/ resolve(1) /\ BusOnly

SpecTagged == Init /\ [][NextTagged]_vars

\* ------------------------------------------------------------------ claims

\* The elements of a finite set of handles, ascending.  Handles are issued in
\* ascending order, so this is the order of registration.
RECURSIVE InOrder(_)
InOrder(S) ==
    IF S = {} THEN <<>>
    ELSE LET m == CHOOSE x \in S : \A y \in S : x <= y
         IN <<m>> \o InOrder(S \ {m})

\* The handles returned by a registration on event name whose removal never
\* reported success.
Kept(name) ==
    {u \in 1 .. issued : registrations[u].eventName = name /\ u \notin removed}

\* The slot of handle u.
Slot(u) == handlers[registrations[u].eventName][registrations[u].index + 1]

\* The indices of the handles of a log are strictly ascending.
Ascending(log) ==
    \A i, j \in 1 .. Len(log) :
        i < j => registrations[log[i]].index < registrations[log[j]].index

\* C1: when the loop of emit is over and no registration or removal on the
\* event was made while it ran, it has invoked exactly the callbacks that
\* were registered on the event (on the bus or through a scope) and not
\* removed, in the order of their registration.
C1_EmitInvokesKeptInOrder ==
    (sp.state = "end" /\ ~sp.dirty) => sp.log = InOrder(Kept(sp.ev))

\* Three callbacks on one event, one of them through a scope, the middle one
\* removed, and emit has invoked the first and the third.
C1_Witness ==
    /\ sp.state = "end"
    /\ ~sp.dirty
    /\ sp.log = <<1, 3>>
    /\ 2 \in removed
    /\ registrations[2].eventName = sp.ev
    /\ \E u \in {1, 3} : registrations[u].scopeId = S1

\* C2: a bus-level off of a handle that no registration returned, or whose
\* removal already succeeded, raises an Error.
C2_SecondOffThrows ==
    [][\A u \in UUIDs :
          (off(FALSE, u) /\ (u \notin DOMAIN registrations \/ u \in removed))
              => last'.out = "throw"]_vars

\* C3: emit on an event that allows asynchronous callbacks raises the Error
\* and starts no pass, so no callback is invoked.
C3_EmitOnAsyncEventThrows ==
    [][\A n \in EventNames :
          (n \in DOMAIN events /\ events[n].allowAsync /\ emit(n))
              => /\ last' = Throw("SyncFireOnAsyncEvent")
                 /\ sp'.state = "idle"
                 /\ sp'.log = <<>>
                 /\ UNCHANGED <<registry, ap>>]_vars

\* emit was refused on an event with a live synchronous and a live
\* asynchronous callback.
C3_Witness ==
    /\ last = Throw("SyncFireOnAsyncEvent")
    /\ \E n \in DOMAIN events :
          /\ events[n].allowAsync
          /\ \E i, j \in 1 .. Len(handlers[n]) :
                /\ handlers[n][i] # Null /\ handlers[n][i].async
                /\ handlers[n][j] # Null /\ ~handlers[n][j].async

\* C4: a call of emitAsync invokes a callback only when the callback it
\* invoked before has completed (no promise of this call is pending), and its
\* invocations go up in index.
C4_AsyncDeliveryIsSequential ==
    [][\A c \in Calls :
          Len(ap'[c].log) > Len(ap[c].log)
              => /\ ap[c].pend = 0
                 /\ Ascending(ap'[c].log)]_vars

\* A call has invoked an asynchronous callback, which has completed, and then
\* a synchronous one at a later index.
C4_Witness ==
    \E c \in Calls :
        /\ Len(ap[c].log) >= 2
        /\ Slot(ap[c].log[1]).async
        /\ Slot(ap[c].log[2]) # Null
        /\ ~Slot(ap[c].log[2]).async

\* trace holds an invocation of one call between two of the other.
Interleaved ==
    \E i, j, k \in 1 .. Len(trace) :
        i < j /\ j < k /\ trace[i] = trace[k] /\ trace[i] # trace[j]

\* C5 as stated: two emitAsync calls in flight on the same event do not
\* interleave their invocations.
C5_NoInterleaving ==
    (ap[1].state # "idle" /\ ap[2].state # "idle" /\ ap[1].ev = ap[2].ev)
        => ~Interleaved

\* C5 as amended: each of two emitAsync calls in flight on the same event
\* delivers on its own one callback at a time in ascending index order,
\* whatever the other call invokes in between.
C5_EachCallSequential ==
    (ap[1].state # "idle" /\ ap[2].state # "idle" /\ ap[1].ev = ap[2].ev)
        => \A c \in Calls :
              /\ Ascending(ap[c].log)
              /\ Len(SelectSeq(trace, LAMBDA x : x = c)) = Len(ap[c].log)
              /\ ap[c].pend # 0 => ap[c].pend = ap[c].log[Len(ap[c].log)]

\* Two calls on the same event, interleaved, each with two invocations.
C5_Witness ==
    /\ ap[1].state # "idle" /\ ap[2].state # "idle" /\ ap[1].ev = ap[2].ev
    /\ Interleaved
    /\ Len(ap[1].log) = 2 /\ Len(ap[2].log) = 2

\* C6: a call of onSync, onAsync or off on the scope object of a frozen scope
\* returns the Err result and changes nothing in the registry.
C6_FrozenScopeRefuses ==
    [][\A s \in ScopeIds :
          (/\ s \in DOMAIN scopes
           /\ scopes[s].frozen
           /\ \/ \E n \in EventNames : ScopeOnSync(s, n)
              \/ \E n \in EventNames : ScopeOnAsync(s, n)
              \/ \E u \in UUIDs : ScopeOff(s, u))
              => /\ last' = ErrResult("ScopeFrozen")
                 /\ UNCHANGED registry]_vars

\* A frozen scope with a live callback of its own has refused a call.
C6_Witness ==
    /\ last = ErrResult("ScopeFrozen")
    /\ \E s \in DOMAIN scopes :
          /\ scopes[s].frozen
          /\ \E u \in DOMAIN registrations :
                registrations[u].scopeId = s /\ Slot(u) # Null

\* C7: isFrozen is true exactly when the most recent freezeScope or
\* unfreezeScope call on the scope was freezeScope, and while it was not,
\* onSync on a defined event, onAsync on an event that allows it, and off of a
\* live callback of the scope, made through the scope object, succeed.
C7_Toggle ==
    /\ [](\A s \in DOMAIN scopes : Frozen(s) <=> toggled[s] = "freeze")
    /\ [][\A s \in ScopeIds :
            (s \in DOMAIN scopes /\ toggled[s] # "freeze")
                => /\ \A n \in DOMAIN events :
                         (issued < MaxScoped /\ ScopeOnSync(s, n))
                             => last' = OkResult(issued + 1)
                   /\ \A n \in DOMAIN events :
                         (issued < MaxScoped /\ events[n].allowAsync
                              /\ ScopeOnAsync(s, n))
                             => last' = OkResult(issued + 1)
                   /\ \A u \in DOMAIN registrations :
                         (registrations[u].scopeId = s /\ Slot(u) # Null
                              /\ ScopeOff(s, u))
                             => last' = OkResult(0) /\ Slot(u)' = Null]_vars

\* A scope that was unfrozen has registered a callback through its object.
C7_Witness ==
    /\ last.out = "Ok"
    /\ last.val > 0
    /\ toggled[registrations[last.val].scopeId] = "unfreeze"

\* C8: off through a scope object that is not frozen, of a live callback
\* registered through another scope or directly on the bus, returns the Err
\* result and leaves the callback in its slot.
C8_ForeignOffRefused ==
    [][\A s \in ScopeIds, u \in UUIDs :
          (/\ s \in DOMAIN scopes
           /\ ~scopes[s].frozen
           /\ u \in DOMAIN registrations
           /\ Slot(u) # Null
           /\ registrations[u].scopeId # s
           /\ ScopeOff(s, u))
              => /\ last' = ErrResult("ForeignCallback")
                 /\ UNCHANGED registry]_vars

\* A scope object has refused to remove a callback; one live callback was
\* registered on the bus and one through a scope.
C8_Witness ==
    /\ last = ErrResult("ForeignCallback")
    /\ \E u, v \in DOMAIN registrations :
          /\ Slot(u) # Null /\ registrations[u].scopeId = NoScope
          /\ Slot(v) # Null /\ registrations[v].scopeId # NoScope

\* C9: getCallbackInfo finds a handle exactly when off finds it.
C9_DescribeIffRemove ==
    \A u \in UUIDs : InfoFound(u) <=> OffFound(u)

\* C10: define raises the Error exactly when the name is defined, and then
\* changes nothing; otherwise it adds the definition with its flag and an
\* empty callback list and leaves every other event as it was.
C10_Define ==
    [][\A n \in EventNames, a \in BOOLEAN :
          define(n, a)
              => IF n \in DOMAIN events
                 THEN last' = Throw("EventExists") /\ UNCHANGED registry
                 ELSE /\ last' = Return(0)
                      /\ events'[n] = [name |-> n, allowAsync |-> a]
                      /\ handlers'[n] = <<>>
                      /\ \A m \in DOMAIN events :
                            events'[m] = events[m] /\ handlers'[m] = handlers[m]
                      /\ UNCHANGED <<registrations, scopes, issued>>]_vars

\* define was refused for a name that has callbacks, with the other name
\* defined as well.
C10_Witness ==
    /\ last = Throw("EventExists")
    /\ DOMAIN events = EventNames
    /\ \E n \in DOMAIN events : Len(handlers[n]) > 0

\* What a successful registration on event name leaves: one entry with the
\* new handle at the end of the event's list, one record under that handle,
\* and every other list and record as it was.
AppendedOne(name, async) ==
    /\ issued' = issued + 1
    /\ handlers'[name] = Append(handlers[name],
                                [async |-> async, identifier |-> issued + 1])
    /\ \A m \in DOMAIN handlers : m # name => handlers'[m] = handlers[m]
    /\ DOMAIN registrations' = DOMAIN registrations \cup {issued + 1}
    /\ (issued + 1) \notin DOMAIN registrations
    /\ registrations'[issued + 1].eventName = name
    /\ \A u \in DOMAIN registrations : registrations'[u] = registrations[u]
    /\ UNCHANGED <<events, scopes>>

\* C11: onSync and onAsync on a name that was never defined raise the
\* unknown-event Error, onAsync on an event whose allowAsync is false raises
\* the async-not-allowed Error, and a call that raises appends no entry and
\* creates no record; every other call returns a handle and appends exactly
\* one entry.
C11_RegisterChecksEvent ==
    [][\A n \in EventNames :
          /\ onSync(FALSE, n, NoScope)
                => IF n \notin DOMAIN events
                   THEN last' = Throw("SyncUnknownEvent") /\ UNCHANGED registry
                   ELSE last' = Return(issued + 1) /\ AppendedOne(n, FALSE)
          /\ onAsync(FALSE, n, NoScope)
                => IF n \notin DOMAIN events
                   THEN last' = Throw("AsyncUnknownEvent") /\ UNCHANGED registry
                   ELSE IF ~events[n].allowAsync
                   THEN last' = Throw("AsyncNotAllowed") /\ UNCHANGED registry
                   ELSE last' = Return(issued + 1) /\ AppendedOne(n, TRUE)]_vars

\* onAsync was refused on an event that does not allow it and has a
\* synchronous callback, while the other event holds an asynchronous one.
C11_Witness ==
    /\ last = Throw("AsyncNotAllowed")
    /\ \E n, m \in DOMAIN events :
          /\ ~events[n].allowAsync
          /\ Len(handlers[n]) > 0
          /\ \A i \in 1 .. Len(handlers[n]) : ~handlers[n][i].async
          /\ \E i \in 1 .. Len(handlers[m]) : handlers[m][i].async

\* A string that is not empty and holds only letters, digits and underscores.
WordOnly(id) ==
    /\ id # <<>>
    /\ {id[i] : i \in 1 .. Len(id)} \subseteq (Letters \cup Digits \cup {"_"})

\* C12: scope(id) returns exactly when id is not empty, holds only letters,
\* digits and underscores and no scope was created under it before (toggled
\* has an entry for every scope ever created), and then adds the scope, not
\* frozen, and leaves the others as they are; otherwise it raises the Error
\* of its case and leaves the scopes and their flags as they are.  No step
\* takes a scope away.
C12_ScopeCreation ==
    [][/\ DOMAIN scopes \subseteq DOMAIN scopes'
       /\ \A id \in AnyIds :
             scope(id)
                => IF WordOnly(id) /\ id \notin DOMAIN toggled
                   THEN /\ last' = Return(0)
                        /\ DOMAIN scopes' = DOMAIN scopes \cup {id}
                        /\ scopes'[id].frozen = FALSE
                        /\ \A t \in DOMAIN scopes : scopes'[t] = scopes[t]
                   ELSE /\ last' = Throw(IF id = <<>> THEN "ScopeIdEmpty"
                                         ELSE IF ~WordOnly(id) THEN "ScopeIdInvalid"
                                         ELSE "ScopeExists")
                        /\ UNCHANGED scopes]_vars

\* "abc_1" was created and frozen, another scope was created after it, and a
\* malformed id has been refused: no scope stands under "", "has space" or
\* "has-dash".
C12_Witness ==
    /\ last = Throw("ScopeIdInvalid")
    /\ Abc1 \in DOMAIN scopes
    /\ scopes[Abc1].frozen
    /\ \E s \in DOMAIN scopes : s # Abc1 /\ ~scopes[s].frozen
    /\ DOMAIN scopes \cap {NoScope, HasSpace, HasDash} = {}

\* A handle that no registration returned, or whose removal has succeeded.
Gone(u) == u \notin DOMAIN registrations \/ u \in removed

\* C13: onSync, onAsync and off of a scope object end with the Ok or the Err
\* result, never with a raised Error, and with Err when the scope is frozen,
\* the event is not defined, the event does not allow asynchronous
\* callbacks, the handle is unknown or already removed, or the handle is not
\* of this scope; the bus-level onSync, onAsync and off raise an Error on an
\* undefined event, on an event that does not allow asynchronous callbacks
\* and on an unknown or already removed handle.
C13_ErrResultOnScopeFaultOnBus ==
    [][/\ \A s \in ScopeIds, n \in EventNames :
             s \in DOMAIN scopes
                => /\ ScopeOnSync(s, n)
                       => /\ last'.out \in {"Ok", "Err"}
                          /\ (scopes[s].frozen \/ n \notin DOMAIN events)
                                 => last'.out = "Err"
                   /\ ScopeOnAsync(s, n)
                       => /\ last'.out \in {"Ok", "Err"}
                          /\ (\/ scopes[s].frozen
                              \/ n \notin DOMAIN events
                              \/ ~events[n].allowAsync) => last'.out = "Err"
       /\ \A s \in ScopeIds, u \in UUIDs :
             (s \in DOMAIN scopes /\ ScopeOff(s, u))
                => /\ last'.out \in {"Ok", "Err"}
                   /\ (\/ scopes[s].frozen
                       \/ Gone(u)
                       \/ registrations[u].scopeId # s) => last'.out = "Err"
       /\ \A n \in EventNames :
             /\ (n \notin DOMAIN events /\ onSync(FALSE, n, NoScope))
                   => last'.out = "throw"
             /\ ((n \notin DOMAIN events \/ ~events[n].allowAsync)
                     /\ onAsync(FALSE, n, NoScope))
                   => last'.out = "throw"
       /\ \A u \in UUIDs :
             (Gone(u) /\ off(FALSE, u)) => last'.out = "throw"]_vars

\* The slot at index i (from 0) of event name holds a synchronous callback.
SyncAt(name, i) ==
    /\ i < Len(handlers[name])
    /\ handlers[name][i + 1] # Null
    /\ ~handlers[name][i + 1].async

\* C14: when the callback a fire has invoked throws (the running callback of
\* emit; in emitAsync a synchronous callback in its turn of the loop, or the
\* awaited promise of an asynchronous one), the callback's Error reaches the
\* caller of the fire, raised by emit or as the rejection of emitAsync's
\* promise, the pass is over, so that it invokes no callback at a later
\* index, and events, callback lists, records and scopes are as before.
C14_CallbackErrorLeavesFire ==
    [][/\ emitThrow
             => /\ last' = Thrown(sp.log[Len(sp.log)])
                /\ sp' = IdlePass
                /\ UNCHANGED registry
       /\ \A c \in Calls :
             /\ reject(c)
                   => /\ last' = Rejected(ap[c].log[Len(ap[c].log)])
                      /\ ap'[c] = IdlePass
                      /\ UNCHANGED registry
             /\ (resume(c, TRUE) /\ SyncAt(ap[c].ev, ap[c].idx + 1))
                   => /\ last' = Rejected(handlers[ap[c].ev][ap[c].idx + 2].identifier)
                      /\ ap'[c] = IdlePass
                      /\ UNCHANGED registry
             /\ \A n \in DOMAIN events :
                   (ap[c].state = "idle" /\ emitAsync(c, n, TRUE) /\ SyncAt(n, 0))
                      => /\ last' = Rejected(handlers[n][1].identifier)
                         /\ ap'[c] = IdlePass
                         /\ UNCHANGED registry]_vars

\* The first of three live callbacks of an event has thrown in emit: no fire
\* is running and the two behind it were not invoked.
C14_Witness ==
    /\ last = Thrown(1)
    /\ sp = IdlePass
    /\ ap[1] = IdlePass
    /\ \E n \in DOMAIN events :
          /\ Len(handlers[n]) = 3
          /\ \A i \in 1 .. 3 : handlers[n][i] # Null

\* The first of three live callbacks of an event, an asynchronous one, has
\* failed in emitAsync.
C14_WitnessAsync ==
    /\ last = Rejected(1)
    /\ sp = IdlePass
    /\ ap[1] = IdlePass
    /\ \E n \in DOMAIN events :
          /\ Len(handlers[n]) = 3
          /\ handlers[n][1].async
          /\ \A i \in 1 .. 3 : handlers[n][i] # Null

\* Every entry of list that is not cleared was invoked exactly once in log.
OnceEach(list, log) ==
    \A i \in 1 .. Len(list) :
        list[i] # Null
            => Cardinality({k \in 1 .. Len(log) : log[k] = list[i].identifier}) = 1

\* C15: when the loop of a fire comes to its end, which it does unless a
\* callback throws or an awaited callback never completes, every entry then
\* in the event's list and not cleared was invoked exactly once in the pass.
\* An entry that was in the list, not cleared, when the pass started and was
\* not removed during the pass is such an entry: the list never shrinks and
\* only a removal clears a slot.
C15_PassInvokesEveryLiveEntryOnce ==
    [][/\ (sp.state # "end" /\ sp'.state = "end")
             => OnceEach(handlers'[sp'.ev], sp'.log)
       /\ \A c \in Calls :
             (ap[c].state # "end" /\ ap'[c].state = "end")
                => OnceEach(handlers'[ap'[c].ev], ap'[c].log)]_vars

\* An emitAsync pass over three callbacks, the first asynchronous, that were
\* all registered before the pass started (nothing was registered or removed
\* while it ran) has come to its end with one invocation of each.
C15_Witness ==
    /\ ap[1].state = "end"
    /\ ~ap[1].dirty
    /\ ap[1].log = <<1, 2, 3>>
    /\ handlers[ap[1].ev][1].async
    /\ ~handlers[ap[1].ev][2].async

\* The same for emit, with one of three callbacks removed by a callback of
\* the pass before the loop reached it.
C15_WitnessEmit ==
    /\ sp.state = "end"
    /\ sp.dirty
    /\ Len(sp.log) = 2
    /\ Len(handlers[sp.ev]) = 3
    /\ Cardinality(removed) = 1

\* The invocation a step makes in pass p: the handle its log grew by, or 0.
Called(p, q) ==
    IF Len(q.log) > Len(p.log) THEN q.log[Len(q.log)] ELSE 0

\* C16: a fire never invokes an entry whose slot is cleared when the loop
\* reaches it, whether it was cleared before the pass or while it ran (by a
\* callback of the pass, or by other code while emitAsync was suspended), and
\* stepping over a cleared slot is no failure: the step that passes it
\* raises and rejects nothing.
C16_TombstonesRespected ==
    [][/\ Called(sp, sp') # 0
             => /\ Called(sp, sp') \notin removed
                /\ handlers[sp'.ev][sp'.idx + 1].identifier = Called(sp, sp')
       /\ (emitNext \/ \E n \in EventNames : emit(n) /\ sp'.state # "idle")
             => /\ last' = last
                /\ sp'.state \in {"call", "end"}
       /\ \A c \in Calls :
             /\ Called(ap[c], ap'[c]) # 0
                   => /\ Called(ap[c], ap'[c]) \notin removed
                      /\ handlers[ap'[c].ev][ap'[c].idx + 1].identifier
                             = Called(ap[c], ap'[c])
             /\ (resume(c, FALSE) /\ handlers[ap[c].ev] # <<>>
                     /\ ap[c].idx + 1 < Len(handlers[ap[c].ev])
                     /\ handlers[ap[c].ev][ap[c].idx + 2] = Null)
                   => /\ last' = last
                      /\ ap'[c].state = "await"
                      /\ ap'[c].log = ap[c].log]_vars

\* An emit pass over three entries, whose list was changed while it ran, has
\* come to its end: the second entry is the one removed, and the loop has
\* stepped over its slot and invoked the first and the third.
C16_Witness ==
    /\ sp.state = "end"
    /\ sp.dirty
    /\ sp.log = <<1, 3>>
    /\ removed = {2}
    /\ Len(handlers[sp.ev]) = 3

\* The same in emitAsync, the list changed while the call was suspended.
C16_WitnessAsync ==
    /\ ap[1].state = "end"
    /\ ap[1].dirty
    /\ ap[1].log = <<1, 3>>
    /\ removed = {2}
    /\ Len(handlers[ap[1].ev]) = 3

\* The handles of the entries of event name that are not cleared.
Live(name) ==
    {u \in DOMAIN registrations :
        registrations[u].eventName = name /\ Slot(u) # Null}

\* C17: onSync through the object of a scope that is not frozen does to the
\* event's list what onSync on the bus does, one entry with the new handle
\* at the end, and writes the scope id into the record; so a fire (emit or
\* emitAsync) that has come to its end has invoked the live entries of the
\* event in the order of their registration, whichever scope or the bus they
\* came through; and a successful off through a scope object clears that
\* handle's slot and no other, so that later fires invoke the others and not
\* that one.
C17_ScopeForwardsToSameList ==
    /\ [](/\ sp.state = "end" => sp.log = InOrder(Live(sp.ev))
          /\ ap[1].state = "end" => ap[1].log = InOrder(Live(ap[1].ev)))
    /\ [][/\ \A s \in ScopeIds, n \in EventNames :
                (/\ s \in DOMAIN scopes /\ ~scopes[s].frozen
                 /\ n \in DOMAIN events
                 /\ ScopeOnSync(s, n))
                    => /\ last' = OkResult(issued + 1)
                       /\ handlers'[n] = Append(handlers[n],
                              [async |-> FALSE, identifier |-> issued + 1])
                       /\ registrations'[issued + 1]
                              = [eventName |-> n, index |-> Len(handlers[n]),
                                 scopeId |-> s]
          /\ \A s \in ScopeIds, u \in UUIDs :
                (s \in DOMAIN scopes /\ ScopeOff(s, u) /\ last'.out = "Ok")
                    => /\ registrations[u].scopeId = s
                       /\ u \in Live(registrations[u].eventName)
                       /\ Slot(u)' = Null
                       /\ \A v \in DOMAIN registrations \ {u} :
                             Slot(v)' = Slot(v)]_vars

\* Three callbacks registered on one event through scope S1, on the bus and
\* through scope S2, in this order; the first was removed through its scope
\* object, and the fire after that has invoked the second and the third.
C17_Witness ==
    /\ last = OkResult(0)
    /\ sp.state = "end"
    /\ sp.log = <<2, 3>>
    /\ registrations[1].scopeId = S1
    /\ registrations[2].scopeId = NoScope
    /\ registrations[3].scopeId = S2
    /\ Slot(1) = Null

\* The live callbacks of event name that were registered through a scope
\* that is frozen.
LiveFrozen(name) ==
    {u \in Live(name) :
        /\ registrations[u].scopeId \in DOMAIN scopes
        /\ scopes[registrations[u].scopeId].frozen}

\* C18: freezeScope and unfreezeScope leave events, callback lists, records
\* and handles as they are, create and remove no scope and leave the flag of
\* every other scope as it is; and a fire (emit or emitAsync) that has come
\* to its end has invoked the live callbacks that were registered through a
\* scope that is frozen.
C18_FreezeOnlySetsTheFlag ==
    /\ [](/\ sp.state = "end"
               => \A u \in LiveFrozen(sp.ev) : \E k \in 1 .. Len(sp.log) : sp.log[k] = u
          /\ ap[1].state = "end"
               => \A u \in LiveFrozen(ap[1].ev) :
                      \E k \in 1 .. Len(ap[1].log) : ap[1].log[k] = u)
    /\ [][\A s \in ScopeIds :
             (freezeScope(s) \/ unfreezeScope(s))
                => /\ UNCHANGED <<events, handlers, registrations, issued>>
                   /\ DOMAIN scopes' = DOMAIN scopes
                   /\ \A t \in DOMAIN scopes \ {s} : scopes'[t] = scopes[t]]_vars

\* S1 is frozen and S2 is not; an emit has come to its end and has invoked a
\* callback of each of them, registered before S1 was frozen, under the
\* handles the registrations returned.
C18_Witness ==
    /\ sp.state = "end"
    /\ S1 \in DOMAIN scopes /\ scopes[S1].frozen
    /\ S2 \in DOMAIN scopes /\ ~scopes[S2].frozen
    /\ \E k, l \in 1 .. Len(sp.log) :
          /\ registrations[sp.log[k]].scopeId = S1
          /\ registrations[sp.log[l]].scopeId = S2

\* A call of a method of the object of scope s.
ScopeObjectCall(s) ==
    \/ ScopeIsFrozenCall(s)
    \/ ScopeListEvents(s)
    \/ ScopeListCallbacks(s)
    \/ \E n \in EventNames : ScopeOnSync(s, n)
    \/ \E n \in EventNames : ScopeOnAsync(s, n)
    \/ \E u \in 1 .. (MaxFramed + 1) : ScopeOff(s, u)

\* C19: the frozen flag of a scope changes only in a freezeScope call (to
\* true) or an unfreezeScope call (to false) on that scope: a call of a
\* method of a scope object, whether it succeeds or fails, leaves every
\* scope and flag as it is, and so does every other step of the bus.
C19_OnlyTheBusTogglesTheFlag ==
    [][/\ \A s \in DOMAIN scopes :
             /\ s \in DOMAIN scopes'
             /\ scopes'[s].frozen # scopes[s].frozen
                   => IF scopes[s].frozen THEN unfreezeScope(s) ELSE freezeScope(s)
             /\ ScopeObjectCall(s) => UNCHANGED scopes
       /\ (\A s \in ScopeIds : ~(scope(s) \/ freezeScope(s) \/ unfreezeScope(s)))
             => UNCHANGED scopes]_vars

\* The object of a frozen scope has refused a call; the scope has a live
\* callback of its own and is still frozen, and the other scope is not.
C19_Witness ==
    /\ last = ErrResult("ScopeFrozen")
    /\ \E s, t \in DOMAIN scopes :
          /\ scopes[s].frozen
          /\ ~scopes[t].frozen
          /\ ScopeCallbackList(s) # {}
          /\ \A u \in DOMAIN registrations : Slot(u) # Null

\* C20: freezeScope, unfreezeScope and isFrozen called with a string under
\* which no scope was ever created (toggled has an entry for every scope
\* ever created) raise the Error of the method, and the call creates no
\* scope and leaves every scope's flag as it is.
C20_UnknownScopeRaises ==
    [][\A id \in AnyIds :
          id \notin DOMAIN toggled
             => /\ freezeScope(id)
                   => last' = Throw("FreezeNoScope") /\ UNCHANGED scopes
                /\ unfreezeScope(id)
                   => last' = Throw("UnfreezeNoScope") /\ UNCHANGED scopes
                /\ isFrozen(id)
                   => last' = Throw("NoScope") /\ UNCHANGED scopes]_vars

\* freezeScope was refused, with one scope frozen, another not, and a well
\* formed id under which no scope was created.
C20_Witness ==
    /\ last = Throw("FreezeNoScope")
    /\ \E s, t \in DOMAIN scopes : scopes[s].frozen /\ ~scopes[t].frozen
    /\ ScopeIds \ DOMAIN scopes # {}

\* C21: a registration puts its entry at the index that is the length of the
\* event's list and records that index; a cleared slot stays cleared; no
\* list gets shorter; and no step moves an entry to another index or changes
\* the index a record holds.
C21_IndicesStable ==
    [][/\ \A n \in DOMAIN handlers :
             /\ n \in DOMAIN handlers'
             /\ Len(handlers'[n]) >= Len(handlers[n])
             /\ \A i \in 1 .. Len(handlers[n]) :
                   handlers'[n][i] = handlers[n][i] \/ handlers'[n][i] = Null
             /\ Len(handlers'[n]) > Len(handlers[n])
                   => /\ Len(handlers'[n]) = Len(handlers[n]) + 1
                      /\ issued' = issued + 1
                      /\ handlers'[n][Len(handlers'[n])].identifier = issued'
                      /\ registrations'[issued'].eventName = n
                      /\ registrations'[issued'].index = Len(handlers[n])
       /\ \A u \in DOMAIN registrations :
             u \in DOMAIN registrations' /\ registrations'[u] = registrations[u]
       /\ issued' # issued
             => \E n \in DOMAIN handlers : Len(handlers'[n]) > Len(handlers[n])]_vars

\* The first of two callbacks of an event was removed and then a third was
\* registered on the event: it stands at index 2, behind the cleared slot
\* and the second.
C21_Witness ==
    /\ last = Return(3)
    /\ removed = {1}
    /\ \E n \in DOMAIN handlers :
          /\ Len(handlers[n]) = 3
          /\ handlers[n][1] = Null
          /\ handlers[n][2].identifier = 2
          /\ handlers[n][3].identifier = 3
          /\ registrations[3].index = 2

\* The identifiers of the entries of event name that are not cleared, by
\* position.
Identifiers(name) ==
    {<<name, i, handlers[name][i].identifier>> :
        i \in {j \in 1 .. Len(handlers[name]) : handlers[name][j] # Null}}

\* C22: the records are keyed by the handles the registrations returned, one
\* record for each; no two records hold the same event and index; the slot a
\* record points to exists and is cleared or holds the entry with the
\* record's handle as identifier; no identifier stands in two slots of the
\* bus; and the length of an event's list is the number of records of that
\* event.
C22_HandlesAndRecordsConsistent ==
    /\ DOMAIN registrations = 1 .. issued
    /\ \A u, v \in DOMAIN registrations :
          (/\ registrations[u].eventName = registrations[v].eventName
           /\ registrations[u].index = registrations[v].index) => u = v
    /\ \A u \in DOMAIN registrations :
          /\ registrations[u].eventName \in DOMAIN handlers
          /\ registrations[u].index < Len(handlers[registrations[u].eventName])
          /\ Slot(u) = Null \/ Slot(u).identifier = u
    /\ \A n, m \in DOMAIN handlers :
          \A x \in Identifiers(n), y \in Identifiers(m) : x[3] = y[3] => x = y
    /\ \A n \in DOMAIN handlers :
          Len(handlers[n])
              = Cardinality({u \in DOMAIN registrations :
                                registrations[u].eventName = n})

\* Three callbacks on two events, one of them removed.
C22_Witness ==
    /\ issued = 3
    /\ Cardinality(removed) = 1
    /\ \E n, m \in DOMAIN handlers :
          n # m /\ Len(handlers[n]) = 2 /\ Len(handlers[m]) = 1
    /\ \E u \in DOMAIN registrations : Slot(u) = Null

\* The handles in a list of registration records.
Handles(list) == {cb.UUID : cb \in list}

\* C23: the bus-level listCallbacks() without a filter returns the handles
\* that a registration has returned and that no off or scope-bound off has
\* removed since, and no other.
C23_ListsRegisteredNotRemoved ==
    [][listCallbacks
          => /\ last'.out = "list"
             /\ Handles(last'.val) = (1 .. issued) \ removed]_vars

\* C24: the scope-bound listCallbacks() of scope s returns the records of
\* the bus-level list whose scope id is s: every record it returns is in the
\* bus-level list and was registered through s, none was registered on the
\* bus or through another scope, and every record of the bus-level list
\* registered through s is returned.
C24_ScopeListIsFilteredBusList ==
    [][\A s \in ScopeIds :
          (s \in DOMAIN scopes /\ ScopeListCallbacks(s))
              => /\ last'.out = "list"
                 /\ last'.val \subseteq CallbackList
                 /\ \A cb \in last'.val :
                       /\ cb.scopeId = s
                       /\ registrations[cb.UUID].scopeId = s
                       /\ cb.eventName = registrations[cb.UUID].eventName
                 /\ \A cb \in CallbackList :
                       cb.scopeId = s => cb \in last'.val]_vars

\* The list of one scope holds one record while the bus lists two: the
\* other callback was registered on the bus or through the other scope.
C24_Witness ==
    /\ last.out = "list"
    /\ Cardinality(CallbackList) = 2
    /\ \E cb \in CallbackList :
          /\ cb.scopeId \in ScopeIds
          /\ last.val = {cb}
          /\ \E other \in CallbackList : other.scopeId # cb.scopeId

\* C25: whatever the caller does to the array listEvents() returned (taking
\* an element out, putting one in, writing the allowAsync field of an
\* element), the events of the bus and their allowAsync flags stay as they
\* were.
C25_ListEventsIsSnapshot ==
    [][(\/ \E d \in EventList : callerDropsElement(d)
        \/ callerAddsElement(Made)
        \/ \E n \in EventNames, f \in BOOLEAN : callerSetsField(n, f))
          => events' = events]_vars

\* C26: a define(name, allowAsync) that returns leaves the event in the
\* catalog with that flag, and no method of the bus or of a scope object
\* takes an event out of the catalog or changes its definition afterwards.
C26_DefinitionImmutable ==
    [][/\ \A n \in EventNames, a \in BOOLEAN :
             (define(n, a) /\ last'.out = "return")
                 => /\ n \notin DOMAIN events
                    /\ n \in DOMAIN events'
                    /\ events'[n] = [name |-> n, allowAsync |-> a]
       /\ \A n \in DOMAIN events :
             /\ n \in DOMAIN events'
             /\ events'[n] = events[n]]_vars

\* Both events are defined, "job" with allowAsync and "ping" without, a
\* callback was registered and removed, and a define of a defined event has
\* just thrown.
C26_Witness ==
    /\ last = Throw("EventExists")
    /\ DOMAIN events = EventNames
    /\ events["job"].allowAsync
    /\ ~events["ping"].allowAsync
    /\ issued >= 1
    /\ removed # {}

\* C27: emitAsync on an undefined event rejects with the 'not found' Error
\* and invokes nothing; on a defined event, with allowAsync or without, it
\* starts its pass, and the registry rejects nothing: a pass ends by
\* resolving, or by the Error of the callback it has just invoked (C14).  A
\* pass that has come to its end with no registration or removal on the
\* event made while it was suspended has invoked every entry of the event
\* that is not cleared, synchronous or asynchronous, in ascending index
\* order.
C27_EmitAsyncFailsIffUndefined ==
    /\ [](\A c \in Calls :
            (ap[c].state = "end" /\ ~ap[c].dirty)
                => /\ ap[c].log = InOrder(Live(ap[c].ev))
                   /\ Ascending(ap[c].log))
    /\ [][\A c \in Calls :
            /\ \A n \in EventNames, t \in BOOLEAN :
                  emitAsync(c, n, t)
                      => IF n \notin DOMAIN events
                         THEN /\ last' = Reject("EventNotFound")
                              /\ ap'[c] = IdlePass
                         ELSE \/ /\ ap'[c].state \in {"await", "end"}
                                 /\ ap'[c].ev = n
                                 /\ last' = last
                              \/ /\ ap'[c] = IdlePass
                                 /\ last'.err = "CallbackError"
                                 /\ last'.val \in Live(n)
            /\ (ap[c].state # "idle" /\ ap'[c].state = "idle")
                  => \/ last' = Resolve /\ ap[c].state = "end"
                     \/ last'.err = "CallbackError"]_vars

\* A call on "ping", defined without allowAsync, has come to its end: of the
\* two callbacks of the event the first was removed before, the second was
\* invoked.
C27_Witness ==
    \E c \in Calls :
        /\ ap[c].state = "end"
        /\ ~ap[c].dirty
        /\ ap[c].ev = "ping"
        /\ ~events["ping"].allowAsync
        /\ Len(handlers["ping"]) = 2
        /\ removed = {1}
        /\ ap[c].log = <<2>>

\* The pieces of a list of strings one after the other.
Concatenated(pieces) == Join(pieces, <<>>)

\* C28: render with as many values as the formatter has placeholders, none
\* of which its replacer refuses, returns l0, r1(v1), l1, ..., rn(vn), ln
\* one after the other with nothing in between; with another number of
\* values it throws.
C28_RenderConcatenates ==
    [][\A values \in ValueLists(MaxPieces + 1) :
          render(values)
              => IF Len(values) # Len(formatter.replacers)
                 THEN rendered'.out = "throw"
                 ELSE rendered'.out = "return"
                         => rendered'.val
                              = Concatenated(Result(formatter, values, Len(values)))]_vars

\* The number of format() calls made on the builder in hand.
FormatCalls ==
    Cardinality({i \in 1 .. Len(Of(building).sequence) :
                    Of(building).sequence[i] = "REPLACER"})

\* C29: build() on the builder any sequence of text() and format() calls
\* has led to, the empty one too, returns a Formatter with as many
\* placeholders as format() was called and one literal more.
C29_BuildNeverThrows ==
    [][build => /\ rendered'.out = "return"
                /\ formatter'.made
                /\ Len(formatter'.replacers) = FormatCalls
                /\ Len(formatter'.literals) = Len(formatter'.replacers) + 1]_vars

\* C30: when flushSync() returns and appendFileSync has not failed, every
\* line written before the call is in the file, also when the append of an
\* earlier flushAsync has not been done yet.
C30_FlushSyncWritesAll ==
    [][flushSync(FALSE)
          => \A line \in 1 .. writeHelper.written :
                \E k \in 1 .. Len(writeHelper'.file) : writeHelper'.file[k] = line]_vars

\* C31: text() and format() on an immutable builder return a builder with
\* arrays of its own for what they push into, holding one piece more, and
\* leave the arrays of the builder they were called on, and of the builder
\* kept beside it, as they were: build() on either gives the template it
\* gave before the call.
C31_ImmutableBuilderUnchanged ==
    [][(\/ /\ Len(arrays'[building'.literals]) > Len(arrays[building.literals])
           /\ \E object \in TextArguments : text(object)
        \/ /\ Len(arrays'[building'.replacers]) > Len(arrays[building.replacers])
           /\ \E replacer \in Replacers : format(replacer))
          => /\ ~building.mutable
             /\ In(arrays', building) = In(arrays, building)
             /\ Built(In(arrays', building)) = Built(Of(building))
             /\ kept' = kept
             /\ Built(In(arrays', kept)) = Built(Of(kept))
             /\ building'.sequence \notin {building.sequence, kept.sequence}
             /\ Len(In(arrays', building').sequence)
                   = Len(Of(building).sequence) + 1]_vars

\* Two continuations of the empty builder are held beside each other, one
\* made by text("a") and one by format(): each has its one piece only.
C31_Witness ==
    /\ Of(kept).sequence = <<"LITERAL">>
    /\ Of(kept).literals = <<(<<"a">>)>>
    /\ Of(kept).replacers = <<>>
    /\ Of(building).sequence = <<"REPLACER">>
    /\ Of(building).literals = <<>>
    /\ Len(Of(building).replacers) = 1

\* C32: a pass invokes at most the entries that were in the list of its
\* event when it started.  So when a callback was registered on the event
\* while the pass ran (by a callback of emit, or while emitAsync was
\* suspended) and no callback was ever removed, the pass at its end has not
\* invoked every entry of the list: the new one waits for a later fire.
C32_PassInvokesOnlyEntriesAtStart ==
    /\ (sp.state = "end" /\ sp.dirty /\ removed = {})
          => Len(sp.log) < Len(handlers[sp.ev])
    /\ (ap[1].state = "end" /\ ap[1].dirty /\ removed = {})
          => Len(ap[1].log) < Len(handlers[ap[1].ev])

C34_ScopeOffTwiceIsErr ==
    [][\A s \in ScopeIds, u \in DOMAIN registrations :
          (/\ s \in DOMAIN scopes
           /\ u \in removed
           /\ registrations[u].scopeId = s
           /\ ScopeOff(s, u))
              => /\ last'.out = "Err"
                 /\ UNCHANGED <<registry, removed>>]_vars

\* The only scope is S1 and it is not frozen; the handle registered through
\* it was removed, and a further off of it through S1 has just returned the
\* 'not found' Err.
C34_Witness ==
    /\ last = ErrResult("CallbackNotFound")
    /\ DOMAIN scopes = {S1}
    /\ ~scopes[S1].frozen
    /\ removed = {1}
    /\ registrations[1].scopeId = S1

\* C35: the scope id in the record of a callback is the empty string or the
\* id of a scope that was created on the bus.
C35_RecordedScopeExists ==
    \A u \in DOMAIN registrations :
        \/ registrations[u].scopeId = NoScope
        \/ registrations[u].scopeId \in DOMAIN scopes

\* The handles whose record carries scope id s and whose slot in the list h
\* holds a callback.
LiveOfScope(h, s) ==
    {u \in DOMAIN registrations :
        /\ registrations[u].scopeId = s
        /\ h[registrations[u].eventName][registrations[u].index + 1] # Null}

\* C36: off on the bus, of a handle whose callback is live and whose record
\* carries the id of a frozen scope, returns normally, clears the slot and
\* leaves the scopes as they are: the frozen scope's set of live callbacks
\* loses exactly that handle.
C36_BusOffIgnoresFreeze ==
    [][\A u \in DOMAIN registrations :
          (/\ Slot(u) # Null
           /\ registrations[u].scopeId \in DOMAIN scopes
           /\ scopes[registrations[u].scopeId].frozen
           /\ off(FALSE, u))
              => /\ last' = Return(0)
                 /\ scopes' = scopes
                 /\ u \in removed'
                 /\ LiveOfScope(handlers', registrations[u].scopeId)
                       = LiveOfScope(handlers, registrations[u].scopeId) \ {u}
                 /\ u \in LiveOfScope(handlers, registrations[u].scopeId)]_vars

\* Scope S1 is frozen, the two callbacks registered through it are gone from
\* the list, no callback of S1 is live, and the most recent call returned
\* normally, as off on the bus does.
C36_Witness ==
    /\ last = Return(0)
    /\ S1 \in DOMAIN scopes
    /\ scopes[S1].frozen
    /\ toggled[S1] = "freeze"
    /\ removed = {1, 2}
    /\ registrations[1].scopeId = S1
    /\ registrations[2].scopeId = S1
    /\ LiveOfScope(handlers, S1) = {}

C38_OneExitBlockOnDisk ==
    writeHelper.exited
        => /\ Blocks(writeHelper.file) <= 1
           /\ Blocks(writeHelper.temporaryStorage) = 0

====
